---- MODULE Spec2Model ----
(***************************************************************************)
(* Model of the security response engine of netstat_security_scanner.py:   *)
(* SecurityResponseManager (whitelists, block/unblock, suspend/resume,     *)
(* terminate, expiry sweep, audit log) and the automatic response logic of *)
(* AdvancedNetstatScanner (risk score, hourly budget, manual prompt).      *)
(*                                                                         *)
(* Text is modelled structurally: an address string is the sequence of its *)
(* dotted fields (<<8, 8, 8, 8>> is "8.8.8.8", <<>> is the empty string,   *)
(* <<1, 2, 3>> is the malformed "1.2.3"), a whitelist entry is an address  *)
(* text with an optional "/len" suffix, and a process name is the sequence *)
(* of its characters.                                                      *)
(***************************************************************************)
EXTENDS Integers, Sequences, FiniteSets, TLC

(***************************************************************************)
(* Bounds of the model.                                                    *)
(***************************************************************************)
\* operations (calls into the engine) in one run
MaxSteps == 3
\* clock ticks in one run
MaxTime == 2
\* clock ticks in one hour
TicksPerHour == 1
\* calls in one run during which the environment fails
MaxFaults == 1

(***************************************************************************)
(* Text helpers.                                                           *)
(***************************************************************************)
\* str.lower() on one character
LowerChar(c) ==
      CASE c = "A" -> "a"
        [] c = "B" -> "b"
        [] c = "C" -> "c"
        [] c = "D" -> "d"
        [] c = "E" -> "e"
        [] c = "F" -> "f"
        [] c = "G" -> "g"
        [] c = "H" -> "h"
        [] c = "I" -> "i"
        [] c = "J" -> "j"
        [] c = "K" -> "k"
        [] c = "L" -> "l"
        [] c = "M" -> "m"
        [] c = "N" -> "n"
        [] c = "O" -> "o"
        [] c = "P" -> "p"
        [] c = "Q" -> "q"
        [] c = "R" -> "r"
        [] c = "S" -> "s"
        [] c = "T" -> "t"
        [] c = "U" -> "u"
        [] c = "V" -> "v"
        [] c = "W" -> "w"
        [] c = "X" -> "x"
        [] c = "Y" -> "y"
        [] c = "Z" -> "z"
        [] OTHER -> c

\* str.lower()
Lower(s) == [i \in DOMAIN s |-> LowerChar(s[i])]

\* Python's `sub in s` on strings
Contains(sub, s) ==
    \E i \in 1..(Len(s) - Len(sub) + 1) : SubSeq(s, i, i + Len(sub) - 1) = sub

(***************************************************************************)
(* ipaddress: parsing and the address classes the engine consults.         *)
(***************************************************************************)
\* ipaddress.ip_address(text) succeeds (IPv4 dotted quad)
ValidIp(text) == Len(text) = 4 /\ \A i \in 1..4 : text[i] \in 0..255

Pow2(n) == IF n = 0 THEN 1 ELSE IF n = 1 THEN 2 ELSE IF n = 2 THEN 4
           ELSE IF n = 3 THEN 8 ELSE IF n = 4 THEN 16 ELSE IF n = 5 THEN 32
           ELSE IF n = 6 THEN 64 ELSE IF n = 7 THEN 128 ELSE 256

\* the first `len` bits of two parsed addresses agree
SamePrefix(a, b, len) ==
    \A i \in 1..4 :
        LET bits == IF len >= 8 * i THEN 8
                    ELSE IF len <= 8 * (i - 1) THEN 0
                    ELSE len - 8 * (i - 1)
        IN  (a[i] \div Pow2(8 - bits)) = (b[i] \div Pow2(8 - bits))

\* the bits of a parsed address after the first `len` are all zero
HostBitsZero(a, len) ==
    \A i \in 1..4 :
        LET bits == IF len >= 8 * i THEN 8
                    ELSE IF len <= 8 * (i - 1) THEN 0
                    ELSE len - 8 * (i - 1)
        IN  (a[i] % Pow2(8 - bits)) = 0

Net(a, len) == [addr |-> a, len |-> len]

\* IPv4Address.is_loopback: 127.0.0.0/8
is_loopback(a) == SamePrefix(a, <<127, 0, 0, 0>>, 8)

\* the networks of IPv4Address.is_private
PrivateNetworks ==
    { Net(<<0, 0, 0, 0>>, 8), Net(<<10, 0, 0, 0>>, 8), Net(<<127, 0, 0, 0>>, 8),
      Net(<<169, 254, 0, 0>>, 16), Net(<<172, 16, 0, 0>>, 12),
      Net(<<192, 0, 0, 0>>, 29), Net(<<192, 0, 0, 170>>, 31),
      Net(<<192, 0, 2, 0>>, 24), Net(<<192, 168, 0, 0>>, 16),
      Net(<<198, 18, 0, 0>>, 15), Net(<<198, 51, 100, 0>>, 24),
      Net(<<203, 0, 113, 0>>, 24), Net(<<240, 0, 0, 0>>, 4),
      Net(<<255, 255, 255, 255>>, 32) }

is_private(a) == \E n \in PrivateNetworks : SamePrefix(a, n.addr, n.len)

\* a whitelist entry's text: an address text and a "/len" suffix (NoSuffix: none)
NoSuffix == -1
Entry(text, len) == [text |-> text, len |-> len]

\* ipaddress.ip_network(entry) succeeds (strict: no host bits set)
ValidNetwork(e) ==
    /\ ValidIp(e.text)
    /\ \/ e.len = NoSuffix
       \/ e.len \in 0..32 /\ HostBitsZero(e.text, e.len)

\* `ip_obj in ipaddress.ip_network(entry)` for an entry that parses
InNetwork(a, e) ==
    SamePrefix(a, e.text, IF e.len = NoSuffix THEN 32 ELSE e.len)

(***************************************************************************)
(* Configuration (AdvancedNetstatScanner.__init__ defaults, or a custom    *)
(* config file merged over them).                                          *)
(***************************************************************************)
\* response.ip_whitelist: the defaults, then a range, an exact address, a
\* range written with host bits set and a host name
ip_whitelist ==
    << Entry(<<127, 0, 0, 0>>, 8), Entry(<<192, 168, 0, 0>>, 16),
       Entry(<<10, 0, 0, 0>>, 8), Entry(<<172, 16, 0, 0>>, 12),
       Entry(<<8, 8, 8, 0>>, 24), Entry(<<9, 9, 9, 9>>, NoSuffix),
       Entry(<<7, 7, 7, 7>>, 24), Entry(<<300, 1>>, NoSuffix) >>

\* response.process_whitelist
process_whitelist ==
    { <<"s","s","h","d">>, <<"s","y","s","t","e","m","d">>,
      <<"k","e","r","n","e","l">>, <<"i","n","i","t">>, <<"c","r","o","n">>,
      <<"a","p","a","c","h","e","2">>, <<"n","g","i","n","x">>,
      <<"m","y","s","q","l">>, <<"p","o","s","t","g","r","e","s","q","l">>,
      <<"b","a","c","k","u","p">> }

\* the critical process names of is_whitelisted_process
critical_processes ==
    { <<"s", "y", "s", "t", "e", "m", "d">>,
      <<"k", "e", "r", "n", "e", "l">>,
      <<"k", "t", "h", "r", "e", "a", "d", "d">>,
      <<"m", "i", "g", "r", "a", "t", "i", "o", "n">>,
      <<"r", "c", "u", "_">>,
      <<"w", "a", "t", "c", "h", "d", "o", "g">>,
      <<"s", "s", "h", "d">>,
      <<"i", "n", "i", "t">>,
      <<"d", "b", "u", "s">>,
      <<"n", "e", "t", "w", "o", "r", "k", "m", "a", "n", "a", "g", "e", "r">>,
      <<"s", "y", "s", "t", "e", "m", "d", "-">>,
      <<"c", "r", "o", "n">>,
      <<"r", "s", "y", "s", "l", "o", "g">>,
      <<"n", "t", "p", "d">>,
      <<"c", "h", "r", "o", "n", "y", "d">>,
      <<"a", "p", "a", "c", "h", "e", "2">>,
      <<"n", "g", "i", "n", "x">>,
      <<"m", "y", "s", "q", "l">>,
      <<"p", "o", "s", "t", "g", "r", "e", "s", "q", "l">>,
      <<"r", "e", "d", "i", "s", "-", "s", "e", "r", "v", "e", "r">>,
      <<"m", "o", "n", "g", "o", "d", "b">>,
      <<"d", "o", "c", "k", "e", "r">>,
      <<"k", "u", "b", "e", "l", "e", "t">> }

\* the low-PID floor of is_whitelisted_process
LowPidFloor == 10

\* the in-memory audit tail of log_response
AuditTail == 1000

(***************************************************************************)
(* The inputs of the model: address texts, process ids, the host's process *)
(* table, reasons and block durations.                                     *)
(***************************************************************************)
NoIp == <<>>
Loopback == <<127, 0, 0, 1>>
PrivateIp == <<192, 168, 1, 5>>
InRangeIp == <<8, 8, 8, 8>>
ExactIp == <<9, 9, 9, 9>>
PublicIp1 == <<1, 2, 3, 4>>
PublicIp2 == <<5, 6, 7, 8>>
PublicIp3 == <<45, 33, 32, 156>>
TestNetIp == <<203, 0, 113, 5>>

\* the addresses the manager's operations are called with
Addresses == {NoIp, Loopback, PrivateIp, InRangeIp, ExactIp, PublicIp1, PublicIp2}

\* the foreign addresses of the connections the monitor sees
ForeignIps == {InRangeIp, PublicIp1, PublicIp2}

AllAddresses == Addresses \cup ForeignIps

\* `not pid`: no process id
NoPid == 0
InitPid == 1
LowPid == 5
ShellPid == 9
TmpPid == 4821
SshdPid == 4822
GonePid == 4999

Pids == {NoPid, InitPid, LowPid, ShellPid, TmpPid, SshdPid, GonePid}

\* psutil.Process(pid).name() of each process of the host
ProcessName(pid) ==
    CASE pid = InitPid -> <<"s","y","s","t","e","m","d">>
      [] pid = LowPid -> <<>>
      [] pid = ShellPid -> <<"b","a","s","h">>
      [] pid = TmpPid -> <<"t","m","p","x">>
      [] pid = SshdPid -> <<"S","S","H","D">>
      [] OTHER -> <<>>

\* block durations in hours: one hour, and the default of block_ip
DefaultDuration == 24
Durations == {1}

\* a reason: its text and the risk score formatted into it
NoScore == -1
Reason(text, score) == [text |-> text, score |-> score]
DefaultReason == Reason("Suspicious activity detected", NoScore)

Systems == {"linux", "darwin", "windows", "other"}

(***************************************************************************)
(* State.                                                                  *)
(***************************************************************************)
VARIABLES
    blocked_ips,              \* SecurityResponseManager.blocked_ips
    db_blocked_ips,           \* table blocked_ips of responses.db
    suspended_processes,      \* SecurityResponseManager.suspended_processes
    db_suspended_processes,   \* table suspended_processes of responses.db
    audit_log,                \* SecurityResponseManager.audit_log
    response_log,             \* table response_log of responses.db
    auto_block_count,         \* AdvancedNetstatScanner.auto_block_count
    last_auto_block_reset,    \* AdvancedNetstatScanner.last_auto_block_reset
    config,                   \* config['response']
    system,                   \* platform.system().lower()
    now,                      \* datetime.now(), in ticks
    fw_rules,                 \* the deny rules the host's firewall holds
    rule_files,               \* the pfctl rule files under /tmp
    procs,                    \* the host's processes: pid -> status
    last,                     \* the latest call: operation, target, result, OS calls
    steps,                    \* calls made so far
    faults,                   \* calls the environment failed so far
    threads,                  \* the calls in flight: caller -> frame
    cycle                     \* real_time_monitor_with_response: the loop's position

vars == << blocked_ips, db_blocked_ips, suspended_processes,
           db_suspended_processes, audit_log, response_log, auto_block_count,
           last_auto_block_reset, config, system, now, fw_rules, rule_files,
           procs, last, steps, faults, threads, cycle >>

(***************************************************************************)
(* SecurityResponseManager. Each method is an operator from the manager's  *)
(* state m (a record of the variables it reads and writes, with the OS     *)
(* calls made so far) and its arguments to [m, ok, msg]: the state after   *)
(* the call and the (success, message) pair it returns. env holds what the *)
(* environment answers during the call.                                    *)
(***************************************************************************)
Manager ==
    [ blocked_ips |-> blocked_ips,
      db_blocked_ips |-> db_blocked_ips,
      suspended_processes |-> suspended_processes,
      db_suspended_processes |-> db_suspended_processes,
      audit_log |-> audit_log,
      response_log |-> response_log,
      fw_rules |-> fw_rules,
      rule_files |-> rule_files,
      procs |-> procs,
      system |-> system,
      now |-> now,
      hour |-> TicksPerHour,
      calls |-> <<>> ]

Return(m, ok, msg) == [m |-> m, ok |-> ok, msg |-> msg]

\* an OS call the engine makes, a firewall command or a process call, and
\* what the host answered: rc is "ok" (return code 0, or the call returned),
\* "fail" (a non-zero return code), "raise" or "denied" (the call raised),
\* and for a wait "exited" or "timeout"
FwCall(cmd, dir, ip) ==
    [cmd |-> cmd, dir |-> dir, ip |-> ip, pid |-> NoPid, rc |-> "ok"]
ProcCall(cmd, pid) ==
    [cmd |-> cmd, dir |-> "", ip |-> NoIp, pid |-> pid, rc |-> "ok"]
Answered(c, rc) == [c EXCEPT !.rc = rc]

Call(m, c) == [m EXCEPT !.calls = Append(@, c)]

\* a DELETE that removes nothing
DeleteRows_none(rows, key, value) == rows

\* rows of a table without those of one key (DELETE ... WHERE key = ?)
RECURSIVE DeleteRows(_, _, _)
DeleteRows(rows, key, value) ==
    IF rows = <<>> THEN <<>>
    ELSE IF Head(rows)[key] = value THEN DeleteRows(Tail(rows), key, value)
    ELSE <<Head(rows)>> \o DeleteRows(Tail(rows), key, value)

\* INSERT OR REPLACE of a row under a primary key
InsertOrReplace(rows, key, row) == Append(DeleteRows(rows, key, row[key]), row)

\* the rows of a table with one key value
RowsOf(rows, key, value) == {i \in DOMAIN rows : rows[i][key] = value}

\* is_whitelisted_ip without its user-defined whitelist
is_whitelisted_ip_builtin_only(ip) ==
    IF ip = NoIp THEN FALSE
    ELSE IF ~ValidIp(ip) THEN FALSE
    ELSE is_loopback(ip) \/ is_private(ip)

\* is_whitelisted_ip
is_whitelisted_ip(ip) ==
    IF ip = NoIp THEN FALSE
    ELSE IF ~ValidIp(ip) THEN FALSE
    ELSE IF is_loopback(ip) \/ is_private(ip) THEN TRUE
    ELSE \E i \in DOMAIN ip_whitelist :
            IF ValidNetwork(ip_whitelist[i])
            THEN InNetwork(ip, ip_whitelist[i])
            ELSE ip_whitelist[i] = Entry(ip, NoSuffix)

\* is_whitelisted_process answering True for every process
is_whitelisted_process_always(process_name, pid) == TRUE

\* is_whitelisted_process
is_whitelisted_process(process_name, pid) ==
    IF process_name = <<>> THEN FALSE
    ELSE IF \E critical \in critical_processes :
                Contains(critical, Lower(process_name)) THEN TRUE
    ELSE IF process_name \in process_whitelist THEN TRUE
    ELSE IF pid # NoPid /\ pid <= LowPidFloor THEN TRUE
    ELSE FALSE

\* the addresses is_whitelisted_ip is asked about on its own: those of the
\* operations, further private and public ones, 203.0.113.5 of the
\* documentation range TEST-NET-3, a link-local one, and the malformed texts
\* "300.1" (an entry of the whitelist) and "1.2.3"
CheckedAddresses ==
    AllAddresses \cup
    { NoIp, PublicIp3, TestNetIp, <<10, 1, 2, 3>>, <<172, 16, 5, 5>>,
      <<172, 32, 0, 1>>, <<169, 254, 1, 1>>, <<8, 8, 9, 8>>, <<300, 1>>, <<1, 2, 3>> }

\* the names is_whitelisted_process is asked about on its own: those of the
\* host's processes, an entry of the user's whitelist, two names containing
\* it, a critical name inside a longer one, and two ordinary names
CheckedNames ==
    {ProcessName(pid) : pid \in Pids} \cup
    { <<"b","a","c","k","u","p">>, <<"m","y","b","a","c","k","u","p">>,
      <<"B","a","c","k","u","p">>, <<"N","g","i","n","x","-","w">>,
      <<"c","u","r","l">>, <<"u","n","k","n","o","w","n">> }

\* the answers of is_whitelisted_ip and of is_whitelisted_process over the
\* addresses and the processes of the model, computed once
ProcessNames == {ProcessName(pid) : pid \in Pids}
whitelisted_ip == [ip \in AllAddresses \cup {NoIp} |-> is_whitelisted_ip(ip)]
whitelisted_process ==
    [process_name \in ProcessNames, pid \in Pids |->
        is_whitelisted_process(process_name, pid)]

\* the same over the addresses and the names asked about on their own
checked_ip == [ip \in CheckedAddresses |-> is_whitelisted_ip(ip)]
checked_process ==
    [process_name \in CheckedNames, pid \in Pids |->
        is_whitelisted_process(process_name, pid)]

\* what an audit entry names
Target(ip, pid, name, named) ==
    [ip |-> ip, pid |-> pid, name |-> name, named |-> named]

\* the audit target of an address, f"PID:{pid}:{name}" and f"PID:{pid}"
IpTarget(ip) == Target(ip, NoPid, <<>>, FALSE)
PidNameTarget(pid, name) == Target(NoIp, pid, name, TRUE)
PidTarget(pid) == Target(NoIp, pid, <<>>, FALSE)

\* log_response: the row is inserted and committed, then the entry is appended
\* to the in-memory tail; a failed insert is logged and nothing is appended
log_response(m, action, target, reason, success, env) ==
    IF ~env.log THEN m
    ELSE LET entry == [action |-> action, target |-> target,
                       reason |-> reason, success |-> success]
             tail == Append(m.audit_log, entry)
         IN  [m EXCEPT !.response_log = Append(@, entry),
                       !.audit_log = IF Len(tail) > AuditTail
                                     THEN SubSeq(tail, Len(tail) - AuditTail + 1, Len(tail))
                                     ELSE tail]

(***************************************************************************)
(* The firewall of the host, as block_ip and unblock_ip drive it.          *)
(***************************************************************************)
Dirs == {"in", "out"}
NoRules == [r \in Dirs \X AllAddresses |-> 0]

AddRule(m, dir, ip) == [m EXCEPT !.fw_rules[<<dir, ip>>] = @ + 1]
DelRule(m, dir, ip) ==
    [m EXCEPT !.fw_rules[<<dir, ip>>] = IF @ > 0 THEN @ - 1 ELSE 0]

\* block_ip, the platform's install: [m, success, raised]. The outbound
\* command's return code is not read.
Install(m, ip, env) ==
    CASE m.system \in {"linux", "windows"} ->
            LET m1 == Call(m, Answered(FwCall("add", "in", ip), env.fw)) IN
            IF env.fw = "raise" THEN [m |-> m1, success |-> FALSE, raised |-> TRUE]
            ELSE IF env.fw = "fail" THEN [m |-> m1, success |-> FALSE, raised |-> FALSE]
            ELSE LET out == Answered(FwCall("add", "out", ip),
                                     IF env.fw_out THEN "ok" ELSE "fail")
                     m2 == Call(AddRule(m1, "in", ip), out)
                 IN  [m |-> IF env.fw_out THEN AddRule(m2, "out", ip) ELSE m2,
                      success |-> TRUE, raised |-> FALSE]
      [] m.system = "darwin" ->
            LET m1 == Call([m EXCEPT !.rule_files = @ \cup {ip}],
                           Answered(FwCall("load", "in+out", ip), env.fw)) IN
            IF env.fw = "raise" THEN [m |-> m1, success |-> FALSE, raised |-> TRUE]
            ELSE IF env.fw = "fail" THEN [m |-> m1, success |-> FALSE, raised |-> FALSE]
            ELSE [m |-> [m1 EXCEPT !.fw_rules =
                            [r \in Dirs \X AllAddresses |-> IF r[2] = ip THEN 1 ELSE 0]],
                  success |-> TRUE, raised |-> FALSE]
      [] OTHER -> [m |-> m, success |-> FALSE, raised |-> TRUE]

\* block_ip's guard against a second block, left out
already_blocked_unchecked(m, ip) == FALSE

\* block_ip's guard against a second block
already_blocked(m, ip) == ip \in m.blocked_ips

\* block_ip
block_ip(m, ip, reason, duration_hours, env) ==
    IF ip = NoIp \/ whitelisted_ip[ip] THEN Return(m, FALSE, "Whitelisted")
    ELSE IF already_blocked(m, ip) THEN Return(m, FALSE, "AlreadyBlocked")
    ELSE LET inst == Install(m, ip, env) IN
         IF inst.raised
         THEN Return(log_response(inst.m, "block_ip", IpTarget(ip), reason, FALSE, env),
                     FALSE, "Error")
         ELSE IF ~inst.success
         THEN Return(log_response(inst.m, "block_ip", IpTarget(ip), reason, FALSE, env),
                     FALSE, "ExecutionFailed")
         ELSE LET m1 == [inst.m EXCEPT !.blocked_ips = @ \cup {ip}]
                  row == [ip |-> ip, reason |-> reason, timestamp |-> m.now,
                          auto_unblock_time |-> m.now + duration_hours * m.hour]
                  m2 == [m1 EXCEPT !.db_blocked_ips = InsertOrReplace(@, "ip", row)]
              IN  IF ~env.db
                  THEN Return(log_response(m1, "block_ip", IpTarget(ip), reason, FALSE, env),
                              FALSE, "Error")
                  ELSE Return(log_response(m2, "block_ip", IpTarget(ip), reason, TRUE, env),
                              TRUE, "Blocked")

\* what a delete command answers: non-zero when the command fails or the
\* rule is absent
DeleteAnswer(m, dir, ip, env) ==
    IF env.fw = "fail" \/ m.fw_rules[<<dir, ip>>] = 0 THEN "fail" ELSE "ok"

\* one delete command: the rule is removed when the command succeeds
Delete(m, dir, ip, env) ==
    LET rc == DeleteAnswer(m, dir, ip, env)
        m1 == Call(m, Answered(FwCall("delete", dir, ip), rc))
    IN  IF rc = "ok" THEN DelRule(m1, dir, ip) ELSE m1

\* a removal that succeeds only when both rules were there and the commands
\* return zero
Remove_strict(m, ip, env) ==
    [m |-> m,
     success |-> env.fw = "ok" /\ \A dir \in Dirs : m.fw_rules[<<dir, ip>>] > 0,
     raised |-> FALSE]

\* unblock_ip, the platform's removal: [m, success, raised]. No command's
\* return code is read.
Remove(m, ip, env) ==
    CASE m.system \in {"linux", "windows"} ->
            IF env.fw = "raise"
            THEN [m |-> Call(m, Answered(FwCall("delete", "in", ip), "raise")),
                  success |-> FALSE, raised |-> TRUE]
            ELSE [m |-> Delete(Delete(m, "in", ip, env), "out", ip, env),
                  success |-> TRUE, raised |-> FALSE]
      [] m.system = "darwin" ->
            [m |-> [m EXCEPT !.rule_files = @ \ {ip}],
             success |-> TRUE, raised |-> FALSE]
      [] OTHER -> [m |-> m, success |-> FALSE, raised |-> FALSE]

\* unblock_ip
unblock_ip(m, ip, env) ==
    IF ip \notin m.blocked_ips THEN Return(m, FALSE, "NotBlocked")
    ELSE LET rem == Remove(m, ip, env) IN
         IF rem.raised THEN Return(rem.m, FALSE, "Error")
         ELSE IF ~rem.success THEN Return(rem.m, FALSE, "Failed")
         ELSE LET m1 == [rem.m EXCEPT !.blocked_ips = @ \ {ip}]
                  m2 == [m1 EXCEPT !.db_blocked_ips = DeleteRows(@, "ip", ip)]
              IN  IF ~env.db THEN Return(m1, FALSE, "Error")
                  ELSE Return(log_response(m2, "unblock_ip", IpTarget(ip), Reason("Manual unblock", NoScore),
                                           TRUE, env),
                              TRUE, "Unblocked")

\* auto_unblock_expired, the loop over the fetched rows, left at the first
\* row whose unblock fails
RECURSIVE SweepRows_stops(_, _, _)
SweepRows_stops(m, rows, envs) ==
    IF rows = <<>> THEN m
    ELSE LET row == Head(rows)
             r == unblock_ip(m, row.ip, Head(envs))
         IN  IF m.now < row.auto_unblock_time
             THEN SweepRows_stops(m, Tail(rows), Tail(envs))
             ELSE IF r.ok THEN SweepRows_stops(r.m, Tail(rows), Tail(envs))
             ELSE r.m

\* auto_unblock_expired, the loop over the fetched rows; envs holds what the
\* environment answers during the unblock of each row
RECURSIVE SweepRows(_, _, _)
SweepRows(m, rows, envs) ==
    IF rows = <<>> THEN m
    ELSE LET row == Head(rows)
             m1 == IF m.now >= row.auto_unblock_time
                   THEN unblock_ip(m, row.ip, Head(envs)).m
                   ELSE m
         IN  SweepRows(m1, Tail(rows), Tail(envs))

\* auto_unblock_expired
auto_unblock_expired(m, env) ==
    IF ~env.db_read THEN m
    ELSE SweepRows(m, m.db_blocked_ips, [i \in DOMAIN m.db_blocked_ips |-> env])

(***************************************************************************)
(* Processes. env.proc is what the host answers to the call: the name is   *)
(* refused ("name_denied"), the signal is refused ("denied"), the process  *)
(* exits within the grace period ("exits"), only after the forced kill     *)
(* ("killed"), or not even then ("survives").                              *)
(***************************************************************************)
SetProc(m, pid, status) == [m EXCEPT !.procs[pid] = status]

\* proc.wait(timeout=5) raises TimeoutExpired, always
grace_elapsed_always(m, pid, env) == TRUE

\* proc.wait(timeout=5) raises TimeoutExpired: the process did not exit in
\* the grace period (a stopped process does not handle the signal)
grace_elapsed(m, pid, env) == ~(env.proc = "exits" /\ m.procs[pid] = "running")

\* what the wait after the graceful signal observes
GraceAnswer(m, pid, env) ==
    IF env.proc = "exits" /\ m.procs[pid] = "running" THEN "exited" ELSE "timeout"

\* terminate_process
terminate_process(m, pid, reason, env) ==
    IF pid = NoPid THEN Return(m, FALSE, "NoPid")
    ELSE IF m.procs[pid] = "gone" THEN Return(m, FALSE, "ProcessNotFound")
    ELSE IF env.proc = "name_denied" THEN Return(m, FALSE, "AccessDenied")
    ELSE LET process_name == ProcessName(pid) IN
         IF whitelisted_process[process_name, pid]
         THEN Return(m, FALSE, "Whitelisted")
         ELSE IF env.proc = "denied"
         THEN Return(Call(m, Answered(ProcCall("terminate", pid), "denied")),
                     FALSE, "AccessDenied")
         ELSE LET m1 == Call(Call(m, ProcCall("terminate", pid)),
                             Answered(ProcCall("wait", pid), GraceAnswer(m, pid, env)))
              IN
              IF ~grace_elapsed(m, pid, env)
              THEN Return(log_response(SetProc(m1, pid, "gone"), "terminate_process",
                                       PidNameTarget(pid, process_name), reason,
                                       TRUE, env),
                          TRUE, "Terminated")
              ELSE LET m2 == Call(m1, ProcCall("kill", pid)) IN
                   IF env.proc = "survives"
                   THEN Return(log_response(
                                   Call(m2, Answered(ProcCall("wait", pid), "timeout")),
                                   "terminate_process", PidTarget(pid),
                                   reason, FALSE, env),
                               FALSE, "Error")
                   ELSE Return(log_response(
                                   SetProc(Call(m2, Answered(ProcCall("wait", pid),
                                                             "exited")),
                                           pid, "gone"),
                                   "terminate_process",
                                   PidNameTarget(pid, process_name), reason,
                                   TRUE, env),
                               TRUE, "Terminated")

\* suspend_process
suspend_process(m, pid, reason, env) ==
    IF pid = NoPid THEN Return(m, FALSE, "NoPid")
    ELSE IF m.procs[pid] = "gone" THEN Return(m, FALSE, "ProcessNotFound")
    ELSE IF env.proc = "name_denied" THEN Return(m, FALSE, "AccessDenied")
    ELSE LET process_name == ProcessName(pid) IN
         IF whitelisted_process[process_name, pid]
         THEN Return(m, FALSE, "Whitelisted")
         ELSE IF pid \in m.suspended_processes
         THEN Return(m, FALSE, "AlreadySuspended")
         ELSE LET m1 == Call(m, Answered(ProcCall("suspend", pid),
                                         IF env.proc = "denied" THEN "denied" ELSE "ok"))
              IN
              IF env.proc = "denied" THEN Return(m1, FALSE, "AccessDenied")
              ELSE LET m2 == [SetProc(m1, pid, "stopped")
                                 EXCEPT !.suspended_processes = @ \cup {pid}]
                       row == [pid |-> pid, name |-> process_name,
                               reason |-> reason, timestamp |-> m.now]
                       m3 == [m2 EXCEPT !.db_suspended_processes =
                                            InsertOrReplace(@, "pid", row)]
                   IN  IF ~env.db
                       THEN Return(log_response(m2, "suspend_process", PidTarget(pid),
                                                reason, FALSE, env),
                                   FALSE, "Error")
                       ELSE Return(log_response(m3, "suspend_process",
                                                PidNameTarget(pid, process_name),
                                                reason, TRUE, env),
                                   TRUE, "Suspended")

\* resume_process
resume_process(m, pid, env) ==
    IF pid \notin m.suspended_processes THEN Return(m, FALSE, "NotSuspended")
    ELSE IF m.procs[pid] = "gone" THEN Return(m, FALSE, "ProcessNotFound")
    ELSE LET m1 == Call(m, Answered(ProcCall("resume", pid),
                                    IF env.proc = "denied" THEN "denied" ELSE "ok"))
         IN
         IF env.proc = "denied" THEN Return(m1, FALSE, "Error")
         ELSE LET m2 == [SetProc(m1, pid, "running")
                            EXCEPT !.suspended_processes = @ \ {pid}]
                  m3 == [m2 EXCEPT !.db_suspended_processes =
                                       DeleteRows(@, "pid", pid)]
              IN  IF ~env.db THEN Return(m2, FALSE, "Error")
                  ELSE Return(log_response(m3, "resume_process",
                                           PidNameTarget(pid, ProcessName(pid)),
                                           Reason("Manual resume", NoScore), TRUE, env),
                              TRUE, "Resumed")

\* get_status
get_status(m) ==
    [ blocked_ips |-> m.blocked_ips,
      suspended_processes |-> m.suspended_processes,
      recent_actions |-> IF Len(m.audit_log) > 20
                         THEN SubSeq(m.audit_log, Len(m.audit_log) - 19, Len(m.audit_log))
                         ELSE m.audit_log ]

\* load_persistent_state, the loop over the fetched suspended rows: a pid
\* that exists is added to the set, the row of one that does not is deleted;
\* a failing statement ends the load
RECURSIVE LoadRows(_, _, _)
LoadRows(m, rows, env) ==
    IF rows = <<>> THEN m
    ELSE LET pid == Head(rows).pid IN
         IF m.procs[pid] # "gone"
         THEN LoadRows([m EXCEPT !.suspended_processes = @ \cup {pid}], Tail(rows), env)
         ELSE IF ~env.db THEN m
         ELSE LoadRows([m EXCEPT !.db_suspended_processes = DeleteRows(@, "pid", pid)],
                       Tail(rows), env)

\* load_persistent_state without the SELECT of the blocked addresses
load_persistent_state_suspended_only(m, env) ==
    IF ~env.db_read THEN m ELSE LoadRows(m, m.db_suspended_processes, env)

\* load_persistent_state: an exception ends the load where it is
load_persistent_state(m, env) ==
    IF ~env.db_read THEN m
    ELSE LoadRows([m EXCEPT !.blocked_ips =
                               @ \cup {m.db_blocked_ips[i].ip : i \in DOMAIN m.db_blocked_ips}],
                  m.db_suspended_processes, env)

\* __init__: the manager of a new process over the tables of the last one.
\* msg names the method the constructor ended in: init_database when the
\* store cannot be opened (the exception leaves the constructor and no
\* manager exists), else load_persistent_state
SecurityResponseManager(m, env) ==
    LET m0 == [m EXCEPT !.blocked_ips = {}, !.suspended_processes = {},
                        !.audit_log = <<>>]
    IN  IF ~env.db_open THEN Return(m0, FALSE, "init_database")
        ELSE Return(load_persistent_state(m0, env), TRUE, "load_persistent_state")

(***************************************************************************)
(* What the environment may answer during one call.                        *)
(***************************************************************************)
\* every answer succeeds
Calm ==
    [fw |-> "ok", fw_out |-> TRUE, db |-> TRUE, db_read |-> TRUE, log |-> TRUE,
     proc |-> "exits", db_open |-> TRUE]

\* the store is unavailable: no statement succeeds
DbDown == [Calm EXCEPT !.db = FALSE, !.db_read = FALSE, !.log = FALSE]

\* the answers that differ from Calm during a firewall operation: the command
\* returns non-zero, the command cannot be run, the outbound command returns
\* non-zero, the ledger write fails, the audit write fails, the store is down
FwFaults ==
    { [Calm EXCEPT !.fw = "fail"], [Calm EXCEPT !.fw = "raise"],
      [Calm EXCEPT !.fw_out = FALSE], [Calm EXCEPT !.db = FALSE],
      [Calm EXCEPT !.log = FALSE], DbDown }

\* the answers that differ from Calm during a process operation
ProcFaults ==
    { [Calm EXCEPT !.proc = "name_denied"], [Calm EXCEPT !.proc = "denied"],
      [Calm EXCEPT !.proc = "killed"], [Calm EXCEPT !.proc = "survives"],
      [Calm EXCEPT !.db = FALSE], [Calm EXCEPT !.log = FALSE], DbDown }


(***************************************************************************)
(* The engine's state after construction, and its operations.              *)
(***************************************************************************)
DefaultConfig ==
    [ enabled |-> FALSE, auto_response |-> FALSE, require_confirmation |-> TRUE,
      auto_block_threshold |-> 80, auto_terminate_threshold |-> 90,
      default_block_duration_hours |-> 24, max_auto_blocks_per_hour |-> 10 ]

\* a connection record of parse_netstat_line, as far as the engine reads it
Connection(foreign_ip, foreign_port, local_port, pid, program) ==
    [ pid |-> pid, foreign_ip |-> foreign_ip, foreign_port |-> foreign_port,
      local_port |-> local_port, program |-> program ]

NoProgram == <<>>
NoConnection == Connection(NoIp, 0, 0, NoPid, NoProgram)

\* the latest call: the operation, its target and (success, message), the OS
\* calls it made; for the monitor, the connection, its score, whether the
\* response was automatic or prompted, what the operator typed at the prompt,
\* and the operation invoked (ip, pid, ok and msg are then that operation's); for
\* the scorer, the alerts of the scored connection
NoCall ==
    [ pid |-> NoPid, score |-> 0, calls |-> <<>>, ok |-> FALSE, msg |-> "",
      ip |-> NoIp, op |-> "none", conn |-> NoConnection, path |-> "",
      invoked |-> "", choice |-> "", alerts |-> <<>> ]

\* the callers of the manager's methods, and a caller between two calls. A
\* frame holds the call's locals: the method and its address, the statement
\* reached, the result, the OS calls made; for an automatic block the value
\* read by `auto_block_count += 1`; for a sweep the fetched rows; for a call
\* made by a second engine process (main, --unblock-ip) the set of its own
\* manager.
Callers == {"a", "b"}
NoFrame ==
    [ op |-> "none", ip |-> NoIp, pc |-> "", ok |-> FALSE, msg |-> "",
      calls |-> <<>>, auto |-> FALSE, count |-> 0, rows |-> <<>>,
      main |-> FALSE, blocked_ips |-> {} ]

\* the monitoring loop between two cycles: asleep, no connection waiting
NoCycle == [ pc |-> "sleep", connections |-> <<>>, handled |-> <<>>, raised |-> FALSE ]

InitEngine ==
    /\ threads = [caller \in Callers |-> NoFrame]
    /\ cycle = NoCycle
    /\ blocked_ips = {}
    /\ db_blocked_ips = <<>>
    /\ suspended_processes = {}
    /\ db_suspended_processes = <<>>
    /\ audit_log = <<>>
    /\ response_log = <<>>
    /\ auto_block_count = 0
    /\ last_auto_block_reset = 0
    /\ now = 0
    /\ fw_rules = NoRules
    /\ rule_files = {}
    /\ procs = [p \in Pids \ {NoPid} |-> IF p = GonePid THEN "gone" ELSE "running"]
    /\ last = NoCall
    /\ steps = 0
    /\ faults = 0

\* the manager's state after a call
SetManager(m) ==
    /\ blocked_ips' = m.blocked_ips
    /\ db_blocked_ips' = m.db_blocked_ips
    /\ suspended_processes' = m.suspended_processes
    /\ db_suspended_processes' = m.db_suspended_processes
    /\ audit_log' = m.audit_log
    /\ response_log' = m.response_log
    /\ fw_rules' = m.fw_rules
    /\ rule_files' = m.rule_files
    /\ procs' = m.procs

\* the engine was constructed: the last start did not end in init_database
Started == last.op # "init_database"

\* a call of a started engine returns: the manager's state, and the call with
\* its result
Returns(op, ip, pid, r) ==
    /\ Started
    /\ SetManager(r.m)
    /\ last' = [NoCall EXCEPT !.op = op, !.ip = ip, !.pid = pid, !.ok = r.ok,
                                !.msg = r.msg, !.calls = r.m.calls]
    /\ steps' = steps + 1

Scanner == << auto_block_count, last_auto_block_reset, config, system >>

\* the environment's answers of one call: Calm, or a fault while faults remain
Answers(env, fault_set) ==
    /\ env \in {Calm} \cup (IF faults < MaxFaults THEN fault_set ELSE {})
    /\ faults' = IF env = Calm THEN faults ELSE faults + 1

BlockAddress(ip, duration_hours, env) ==
    /\ steps < MaxSteps
    /\ Answers(env, FwFaults)
    /\ Returns("block_ip", ip, NoPid,
               block_ip(Manager, ip, DefaultReason, duration_hours, env))
    /\ UNCHANGED << Scanner, now, threads, cycle >>

UnblockAddress(ip, env) ==
    /\ steps < MaxSteps
    /\ Answers(env, FwFaults)
    /\ Returns("unblock_ip", ip, NoPid, unblock_ip(Manager, ip, env))
    /\ UNCHANGED << Scanner, now, threads, cycle >>

TerminateProcess(pid, env) ==
    /\ steps < MaxSteps
    /\ Answers(env, ProcFaults)
    /\ Returns("terminate_process", NoIp, pid,
               terminate_process(Manager, pid, DefaultReason, env))
    /\ UNCHANGED << Scanner, now, threads, cycle >>

SuspendProcess(pid, env) ==
    /\ steps < MaxSteps
    /\ Answers(env, ProcFaults)
    /\ Returns("suspend_process", NoIp, pid,
               suspend_process(Manager, pid, DefaultReason, env))
    /\ UNCHANGED << Scanner, now, threads, cycle >>

ResumeProcess(pid, env) ==
    /\ steps < MaxSteps
    /\ Answers(env, ProcFaults)
    /\ Returns("resume_process", NoIp, pid, resume_process(Manager, pid, env))
    /\ UNCHANGED << Scanner, now, threads, cycle >>

\* the answers that differ from Calm during a start: the store cannot be
\* opened, its tables cannot be read, a DELETE of the load fails
StartFaults ==
    { [Calm EXCEPT !.db_open = FALSE], DbDown, [Calm EXCEPT !.db = FALSE] }

\* the engine is started again: a new process constructs the manager
Restart(env) ==
    /\ steps < MaxSteps
    /\ Answers(env, StartFaults)
    /\ LET r == SecurityResponseManager(Manager, env) IN
       /\ SetManager(r.m)
       /\ last' = [NoCall EXCEPT !.op = r.msg, !.ok = r.ok]
       /\ steps' = steps + 1
    /\ UNCHANGED << Scanner, now, threads, cycle >>

SweepExpired(env) ==
    /\ steps < MaxSteps
    /\ Answers(env, FwFaults)
    /\ Returns("auto_unblock_expired", NoIp, NoPid,
               Return(auto_unblock_expired(Manager, env), TRUE, ""))
    /\ UNCHANGED << Scanner, now, threads, cycle >>

\* time passes
Tick ==
    /\ now < MaxTime
    /\ now' = now + 1
    /\ UNCHANGED << blocked_ips, db_blocked_ips, suspended_processes,
                    db_suspended_processes, audit_log, response_log, Scanner,
                    fw_rules, rule_files, procs, last, steps, faults, threads,
                    cycle >>

(***************************************************************************)
(* Spec: the address operations of the manager, called in any order, on    *)
(* each platform. SpecProc: its process operations. The two halves of the  *)
(* ledger share only the audit log.                                        *)
(***************************************************************************)
Init ==
    /\ InitEngine
    /\ config = DefaultConfig
    /\ system \in Systems

Next ==
    \/ \E ip \in Addresses, d \in Durations, env \in {Calm} \cup FwFaults :
            BlockAddress(ip, d, env)
    \/ \E ip \in Addresses, env \in {Calm} \cup FwFaults : UnblockAddress(ip, env)
    \/ \E env \in {Calm} \cup FwFaults : SweepExpired(env)
    \/ Tick

Spec == Init /\ [][Next]_vars

InitProc ==
    /\ InitEngine
    /\ config = DefaultConfig
    /\ system = "linux"

NextProc ==
    \/ \E pid \in Pids, env \in {Calm} \cup ProcFaults : TerminateProcess(pid, env)
    \/ \E pid \in Pids, env \in {Calm} \cup ProcFaults : SuspendProcess(pid, env)
    \/ \E pid \in Pids, env \in {Calm} \cup ProcFaults : ResumeProcess(pid, env)
    \/ \E env \in {Calm} \cup StartFaults : Restart(env)

SpecProc == InitProc /\ [][NextProc]_vars

\* SpecExec: all the manager's operations, on one platform
NextExec == Next \/ NextProc

SpecExec == InitProc /\ [][NextExec]_vars

(***************************************************************************)
(* AdvancedNetstatScanner: the risk score, the hourly budget, the          *)
(* automatic response and the manual prompt.                               *)
(***************************************************************************)
\* config['suspicious_ports']
suspicious_ports ==
    { 1337, 31337, 12345, 54321, 9999, 6667, 6697, 4444, 5555, 7777, 8888, 9090,
      1234, 2222, 3333, 6666, 8080, 1080, 1081, 5900, 5901, 3389, 23, 2323, 2332,
      4899, 5000, 5001, 8291, 50050, 50051 }

\* the name patterns of calculate_basic_risk_score
suspicious_names ==
    { <<"t","e","m","p">>, <<"t","m","p">>, <<"u","n","k","n","o","w","n">> }

\* is_internal_ip
is_internal_ip(ip) ==
    IF ip = NoIp THEN TRUE
    ELSE IF ~ValidIp(ip) THEN FALSE
    ELSE is_private(ip) \/ is_loopback(ip)

Min(a, b) == IF a <= b THEN a ELSE b

\* calculate_basic_risk_score with 35 for a suspicious foreign port
calculate_basic_risk_score_35(connection) ==
    Min( (IF connection.foreign_port \in suspicious_ports THEN 35 ELSE 0)
       + (IF connection.local_port \in suspicious_ports THEN 25 ELSE 0)
       + (IF connection.foreign_ip # NoIp /\ ~is_internal_ip(connection.foreign_ip)
          THEN 20 ELSE 0)
       + (IF \E pattern \in suspicious_names :
                    Contains(pattern, Lower(connection.program))
          THEN 15 ELSE 0),
       100 )

\* calculate_basic_risk_score
calculate_basic_risk_score(connection) ==
    Min( (IF connection.foreign_port \in suspicious_ports THEN 30 ELSE 0)
       + (IF connection.local_port \in suspicious_ports THEN 25 ELSE 0)
       + (IF connection.foreign_ip # NoIp /\ ~is_internal_ip(connection.foreign_ip)
          THEN 20 ELSE 0)
       + (IF connection.program # NoProgram
             /\ \E pattern \in suspicious_names :
                    Contains(pattern, Lower(connection.program))
          THEN 15 ELSE 0),
       100 )

\* the connections the monitor sees: a suspicious foreign port and process
\* name, both ports suspicious, the same without a pid, and an ordinary one
Shapes ==
    { <<31337, 51000, TmpPid, <<"t","m","p","x">> >>,
      <<31337, 4444, TmpPid, <<"t","m","p","x">> >>,
      <<31337, 4444, NoPid, <<"t","m","p","x">> >>,
      <<443, 51000, NoPid, NoProgram>> }

Connections ==
    { Connection(ip, s[1], s[2], s[3], s[4]) : ip \in ForeignIps, s \in Shapes }

\* the connections the scorer is asked about on its own: each port
\* suspicious or not, each kind of foreign address, each kind of name
ScoredConnections ==
    { Connection(ip, foreign_port, local_port, pid, program) :
        ip \in { NoIp, Loopback, PrivateIp, PublicIp1, TestNetIp, <<10, 1, 2, 3>>,
                 <<1, 2, 3>> },
        foreign_port \in {31337, 443},
        local_port \in {4444, 51000},
        pid \in {NoPid, TmpPid},
        program \in { NoProgram, <<"t","m","p","x">>, <<"M","y","T","E","M","P">>,
                      <<"u","n","k","n","o","w","n">>, <<"c","u","r","l">> } }

\* the connections of every score: each port suspicious or not, a public or
\* a private address, no pid, a pid, a pid under the floor, a suspicious
\* name or none
Ranked ==
    { Connection(ip, foreign_port, local_port, pid, program) :
        ip \in {PublicIp1, PrivateIp},
        foreign_port \in {31337, 443},
        local_port \in {4444, 51000},
        pid \in {NoPid, TmpPid, LowPid},
        program \in {NoProgram, <<"t","m","p","x">>} }

\* calculate_basic_risk_score over the connections of the model, computed once
risk_scores ==
    [connection \in Connections \cup Ranked |-> calculate_basic_risk_score(connection)]

\* the same over the connections the scorer is asked about on its own
basic_scores ==
    [connection \in ScoredConnections |-> calculate_basic_risk_score(connection)]

\* Alerts raising an alert only above 80
Alerts_above_80(risk_score) ==
    IF risk_score > 80
    THEN << [type |-> "suspicious_connection", severity |-> "high"] >>
    ELSE <<>>

\* analyze_netstat_comprehensive: the alerts of a scored connection
Alerts(risk_score) ==
    IF risk_score > 50
    THEN << [type |-> "suspicious_connection",
             severity |-> IF risk_score > 80 THEN "high" ELSE "medium"] >>
    ELSE <<>>

\* check_auto_block_limits: [count, reset, ok], the counter and the time of
\* its last reset after the check, and the check's answer
check_auto_block_limits_inclusive(count, reset, t, hour, cfg) ==
    LET c == IF t - reset > hour THEN 0 ELSE count
        r == IF t - reset > hour THEN t ELSE reset
    IN  [count |-> c, reset |-> r, ok |-> c <= cfg.max_auto_blocks_per_hour]

check_auto_block_limits(count, reset, t, hour, cfg) ==
    LET c == IF t - reset > hour THEN 0 ELSE count
        r == IF t - reset > hour THEN t ELSE reset
    IN  [count |-> c, reset |-> r, ok |-> c < cfg.max_auto_blocks_per_hour]

\* what a response decision returns: the manager and the budget afterwards,
\* the path taken ("auto", "prompt" or ""), and the operation invoked with
\* its target and result
Response(m, count, reset, path, invoked, ip, pid, ok, msg) ==
    [ m |-> m, count |-> count, reset |-> reset, path |-> path,
      invoked |-> invoked, ip |-> ip, pid |-> pid, ok |-> ok, msg |-> msg ]

\* the answer to "Really terminate ...? [y/N]", whatever was typed
confirmed_always(choice) == choice \in {"3y", "3n"}

\* choice 3 and the answer y to "Really terminate ...? [y/N]"
confirmed(choice) == choice = "3y"

\* prompt_manual_response: choice is what the operator types ("3y" and "3n":
\* 3, then the answer to the confirmation)
prompt_manual_response(m, count, reset, connection, risk_score, choice, env) ==
    IF choice = "1" /\ connection.foreign_ip # NoIp
    THEN LET r == block_ip(m, connection.foreign_ip,
                           Reason("Manual block: Risk score", risk_score),
                           DefaultDuration, env)
         IN  Response(r.m, count, reset, "prompt", "block_ip",
                      connection.foreign_ip, NoPid, r.ok, r.msg)
    ELSE IF choice = "2" /\ connection.pid # NoPid
    THEN LET r == suspend_process(m, connection.pid,
                                  Reason("Manual suspend: Risk score", risk_score), env)
         IN  Response(r.m, count, reset, "prompt", "suspend_process",
                      NoIp, connection.pid, r.ok, r.msg)
    ELSE IF confirmed(choice) /\ connection.pid # NoPid
    THEN LET r == terminate_process(m, connection.pid,
                                    Reason("Manual terminate: Risk score", risk_score),
                                    env)
         IN  Response(r.m, count, reset, "prompt", "terminate_process",
                      NoIp, connection.pid, r.ok, r.msg)
    ELSE Response(m, count, reset, "prompt", "", NoIp, NoPid, FALSE, "")

\* config['response']['enabled'], read as always set
responses_enabled_always(cfg) == TRUE

\* config['response']['enabled']
responses_enabled(cfg) == cfg.enabled

\* `self.auto_block_count += 1`, made for every attempt
Counted_attempts(count, success) == count + 1

\* `if success: self.auto_block_count += 1`
Counted(count, success) == IF success THEN count + 1 ELSE count

\* handle_suspicious_connection
handle_suspicious_connection(m, count, reset, cfg, connection, risk_score, choice, env) ==
    IF ~responses_enabled(cfg)
    THEN Response(m, count, reset, "", "", NoIp, NoPid, FALSE, "")
    ELSE LET lim == IF cfg.auto_response
                    THEN check_auto_block_limits(count, reset, m.now, m.hour, cfg)
                    ELSE [count |-> count, reset |-> reset, ok |-> FALSE]
         IN
         IF cfg.auto_response /\ lim.ok
         THEN IF /\ risk_score >= cfg.auto_terminate_threshold
                 /\ connection.pid # NoPid
                 /\ ~whitelisted_process[connection.program, connection.pid]
              THEN LET r == terminate_process(m, connection.pid,
                                Reason("Auto-terminate: Risk score", risk_score), env)
                   IN  Response(r.m, lim.count, lim.reset, "auto", "terminate_process",
                                NoIp, connection.pid, r.ok, r.msg)
              ELSE IF /\ risk_score >= cfg.auto_block_threshold
                      /\ connection.foreign_ip # NoIp
                      /\ ~whitelisted_ip[connection.foreign_ip]
              THEN LET r == block_ip(m, connection.foreign_ip,
                                Reason("Auto-block: Risk score", risk_score),
                                cfg.default_block_duration_hours, env)
                   IN  Response(r.m, Counted(lim.count, r.ok),
                                lim.reset, "auto", "block_ip",
                                connection.foreign_ip, NoPid, r.ok, r.msg)
              ELSE Response(m, lim.count, lim.reset, "auto", "", NoIp, NoPid, FALSE, "")
         ELSE IF cfg.require_confirmation /\ risk_score > 50
         THEN prompt_manual_response(m, lim.count, lim.reset, connection, risk_score,
                                     choice, env)
         ELSE Response(m, lim.count, lim.reset, "", "", NoIp, NoPid, FALSE, "")

\* real_time_monitor_with_response, one connection of a cycle: it is scored,
\* and handled when the score raised an alert
monitor_connection(m, count, reset, cfg, connection, choice, env) ==
    LET risk_score == risk_scores[connection] IN
    IF Alerts(risk_score) # <<>>
    THEN handle_suspicious_connection(m, count, reset, cfg, connection, risk_score,
                                      choice, env)
    ELSE Response(m, count, reset, "", "", NoIp, NoPid, FALSE, "")

(***************************************************************************)
(* SpecCtl: the monitoring loop under each configuration. The connections  *)
(* of a cycle arrive one at a time; sweeps and the clock interleave.       *)
(***************************************************************************)
\* what the operator types at the prompt ("x": none of the offered numbers)
Choices == {"1", "2", "3y", "3n", "4", "5", "x"}

\* the configurations: the defaults (responses disabled), automatic mode with
\* responses disabled, and responses
\* enabled with the default thresholds 80/90 and blocks of one hour: manual
\* only, with or without the prompt, and automatic with a budget of one or
\* two blocks an hour
Enabled(auto_response, require_confirmation, max_auto_blocks_per_hour) ==
    [ enabled |-> TRUE, auto_response |-> auto_response,
      require_confirmation |-> require_confirmation,
      auto_block_threshold |-> 80, auto_terminate_threshold |-> 90,
      default_block_duration_hours |-> 1,
      max_auto_blocks_per_hour |-> max_auto_blocks_per_hour ]

Configs ==
    {DefaultConfig, [Enabled(TRUE, TRUE, 1) EXCEPT !.enabled = FALSE]}
    \cup { Enabled(FALSE, c, 10) : c \in BOOLEAN }
    \cup { Enabled(TRUE, c, n) : c \in BOOLEAN, n \in {1, 2} }

\* the response to a connection when nothing fails and the operator ignores
Probe(connection, choice) ==
    monitor_connection(Manager, auto_block_count, last_auto_block_reset, config,
                       connection, choice, Calm)

\* what the operator may type: the prompt is shown or nothing is asked
Asked(connection) ==
    IF Probe(connection, "4").path = "prompt" THEN Choices ELSE {"4"}

\* the faults an operation of the loop can meet: the firewall command returns
\* non-zero or the ledger write fails; the process denies access or survives
FaultsOf(invoked) ==
    CASE invoked = "block_ip" ->
             { [Calm EXCEPT !.fw = "fail"], [Calm EXCEPT !.db = FALSE] }
      [] invoked \in {"suspend_process", "terminate_process"} ->
             { [Calm EXCEPT !.proc = "denied"], [Calm EXCEPT !.proc = "survives"] }
      [] OTHER -> {}

\* what the environment may answer to the operation the response invokes
Met(connection, choice) == {Calm} \cup FaultsOf(Probe(connection, choice).invoked)

MonitorConnection(connection, choice, env) ==
    /\ steps < MaxSteps
    /\ Answers(env, FwFaults \cup ProcFaults)
    /\ \E r \in {monitor_connection(Manager, auto_block_count, last_auto_block_reset,
                                     config, connection, choice, env)} :
           /\ SetManager(r.m)
           /\ auto_block_count' = r.count
           /\ last_auto_block_reset' = r.reset
           /\ last' = [ op |-> "monitor", ip |-> r.ip, pid |-> r.pid, ok |-> r.ok,
                        msg |-> r.msg, calls |-> r.m.calls, conn |-> connection,
                        score |-> risk_scores[connection],
                        path |-> r.path, invoked |-> r.invoked,
                        choice |-> IF r.path = "prompt" THEN choice ELSE "",
                        alerts |-> <<>> ]
    /\ steps' = steps + 1
    /\ UNCHANGED << config, system, now, threads, cycle >>

InitCtl ==
    /\ InitEngine
    /\ config \in Configs
    /\ system = "linux"

NextCtl ==
    \/ /\ steps < MaxSteps
       /\ \E connection \in Connections :
             \E choice \in Asked(connection) :
                \E env \in Met(connection, choice) :
                   MonitorConnection(connection, choice, env)
    \/ SweepExpired(Calm)
    \/ Tick

SpecCtl == InitCtl /\ [][NextCtl]_vars

(***************************************************************************)
(* SpecFn: the scorer and the two whitelist checks, asked on their own.    *)
(* They read the configuration and change nothing.                         *)
(***************************************************************************)
\* a query returns: the engine is as it was
Answer(call) ==
    /\ last' = call
    /\ UNCHANGED << blocked_ips, db_blocked_ips, suspended_processes,
                    db_suspended_processes, audit_log, response_log, Scanner, now,
                    fw_rules, rule_files, procs, steps, faults, threads, cycle >>

\* analyze_netstat_comprehensive, one connection: its score and its alerts
ScoreConnection(connection) ==
    Answer([NoCall EXCEPT !.op = "calculate_basic_risk_score",
                          !.conn = connection,
                          !.score = basic_scores[connection],
                          !.alerts = Alerts(basic_scores[connection])])

CheckAddress(ip) ==
    Answer([NoCall EXCEPT !.op = "is_whitelisted_ip", !.ip = ip,
                          !.ok = checked_ip[ip]])

CheckProcess(process_name, pid) ==
    Answer([NoCall EXCEPT !.op = "is_whitelisted_process", !.pid = pid,
                          !.conn = [NoConnection EXCEPT !.pid = pid,
                                                        !.program = process_name],
                          !.ok = checked_process[process_name, pid]])

NextFn ==
    \/ \E connection \in ScoredConnections : ScoreConnection(connection)
    \/ \E ip \in CheckedAddresses : CheckAddress(ip)
    \/ \E process_name \in CheckedNames, pid \in Pids : CheckProcess(process_name, pid)

SpecFn == InitProc /\ [][NextFn]_vars

(***************************************************************************)
(* SpecLoop: real_time_monitor_with_response. A cycle sweeps, scores the   *)
(* connections netstat shows, and handles them one after the other; an     *)
(* exception that leaves the handling ends the cycle.                      *)
(***************************************************************************)
\* the connections netstat may show: both ports suspicious (score 90), the
\* foreign port (score 65), and an ordinary one (score 0)
Shown ==
    { Connection(PublicIp1, 31337, 4444, TmpPid, <<"t","m","p","x">>),
      Connection(PublicIp2, 31337, 51000, TmpPid, <<"t","m","p","x">>),
      Connection(PublicIp1, 443, 51000, NoPid, NoProgram) }

\* the connection lists of a cycle, in netstat's order
MaxShown == 2
Netstat == UNION { [1..n -> Shown] : n \in 1..MaxShown }

\* what the operator does at the prompt: a choice, "3" and then end of input
\* at the confirmation, end of input at the first question, or Ctrl-C
Inputs == {"1", "3y", "4", "3eof", "eof", "^C"}

\* input() raises EOFError: at "Choose action", or at "Really terminate"
\* after choice 3 for a connection with a pid. prompt_manual_response
\* catches KeyboardInterrupt only.
prompt_raises(connection, choice) ==
    \/ choice = "eof"
    \/ choice = "3eof" /\ connection.pid # NoPid

\* analyze_netstat_comprehensive: each connection with its alerts; a
\* connection whose scoring raised is kept without alerts
Analyzed(connections, unscored) ==
    [ i \in DOMAIN connections |->
        [ connection |-> connections[i],
          alerts |-> IF i \in unscored THEN <<>>
                     ELSE Alerts(risk_scores[connections[i]]) ] ]

\* the loop configured to prompt, and to respond automatically
LoopConfigs == { Enabled(FALSE, TRUE, 10), Enabled(TRUE, FALSE, 2) }

\* the top of a cycle: the sweep, netstat, the scoring
BeginCycle(connections, unscored) ==
    /\ cycle.pc = "sleep"
    /\ steps < MaxSteps
    /\ LET r == Return(auto_unblock_expired(Manager, Calm), TRUE, "") IN
       /\ SetManager(r.m)
       /\ last' = [NoCall EXCEPT !.op = "auto_unblock_expired", !.ok = TRUE,
                                 !.calls = r.m.calls]
    /\ cycle' = [ pc |-> "handle", connections |-> Analyzed(connections, unscored),
                  handled |-> <<>>, raised |-> FALSE ]
    /\ UNCHANGED << Scanner, now, steps, faults, threads >>

\* the body of `for connection in connections`, for the next connection.
\* An exception leaves the loop for the handler of the cycle, which prints
\* it and sleeps.
HandleConnection(choice, env) ==
    /\ cycle.pc = "handle"
    /\ steps < MaxSteps
    /\ Len(cycle.handled) < Len(cycle.connections)
    /\ Answers(env, { [Calm EXCEPT !.fw = "fail"] })
    /\ LET this == cycle.connections[Len(cycle.handled) + 1]
           connection == this.connection
           r == IF this.alerts # <<>>
                THEN handle_suspicious_connection(
                         Manager, auto_block_count, last_auto_block_reset, config,
                         connection, risk_scores[connection], choice, env)
                ELSE Response(Manager, auto_block_count, last_auto_block_reset,
                              "", "", NoIp, NoPid, FALSE, "")
           raises == r.path = "prompt" /\ prompt_raises(connection, choice)
       IN  /\ SetManager(r.m)
           /\ auto_block_count' = r.count
           /\ last_auto_block_reset' = r.reset
           /\ last' = [ pid |-> r.pid, score |-> risk_scores[connection],
                        calls |-> r.m.calls, ok |-> r.ok,
                        msg |-> IF raises THEN "EOFError" ELSE r.msg, ip |-> r.ip,
                        op |-> "monitor", conn |-> connection, path |-> r.path,
                        invoked |-> r.invoked,
                        choice |-> IF r.path = "prompt" THEN choice ELSE "",
                        alerts |-> this.alerts ]
           /\ cycle' = IF raises
                       THEN [cycle EXCEPT !.handled = Append(@, connection),
                                          !.pc = "sleep", !.raised = TRUE]
                       ELSE [cycle EXCEPT !.handled = Append(@, connection)]
    /\ steps' = steps + 1
    /\ UNCHANGED << config, system, now, threads >>

\* the end of the list: the summary, then time.sleep(interval)
EndCycle ==
    /\ cycle.pc = "handle"
    /\ Len(cycle.handled) = Len(cycle.connections)
    /\ cycle' = [cycle EXCEPT !.pc = "sleep"]
    /\ UNCHANGED << blocked_ips, db_blocked_ips, suspended_processes,
                    db_suspended_processes, audit_log, response_log, Scanner, now,
                    fw_rules, rule_files, procs, last, steps, faults, threads >>

InitLoop ==
    /\ InitEngine
    /\ config \in LoopConfigs
    /\ system = "linux"

\* `while True`: the next cycle, whatever netstat shows
NextCycle ==
    \E connections \in Netstat :
       \E unscored \in SUBSET DOMAIN connections :
          BeginCycle(connections, unscored)

NextLoop ==
    \/ NextCycle
    \/ \E choice \in Inputs :
          \E env \in { Calm, [Calm EXCEPT !.fw = "fail"] } :
             HandleConnection(choice, env)
    \/ EndCycle
    \/ Tick

SpecLoop == InitLoop /\ [][NextLoop]_vars

(***************************************************************************)
(* SpecRace: block_ip, unblock_ip and auto_unblock_expired called by two   *)
(* callers at once. No method takes a lock, and the connection is opened   *)
(* with check_same_thread=False, so the statements of two calls interleave *)
(* between the membership test, the firewall commands (subprocess.run) and *)
(* the update of the set and the table.                                    *)
(***************************************************************************)
Finished(f, ok, msg) == [f EXCEPT !.pc = "done", !.ok = ok, !.msg = msg]
Goes(m, f) == [m |-> m, f |-> f]

\* the set a call tests and updates: the manager's, or for a second engine
\* process the set of its own manager
Held(m, f) == IF f.main THEN f.blocked_ips ELSE m.blocked_ips
Forget(m, f) ==
    IF f.main THEN Goes(m, [f EXCEPT !.blocked_ips = @ \ {f.ip}])
    ELSE Goes([m EXCEPT !.blocked_ips = @ \ {f.ip}], f)

\* unblock_ip, one statement group at a time: the membership test, the
\* delete commands, then set.remove (KeyError when the address is gone), the
\* DELETE and the audit entry
unblock_ip_step(m, f) ==
    CASE f.pc = "load" ->
             Goes(m, [f EXCEPT !.pc = "check",
                               !.blocked_ips = {m.db_blocked_ips[i].ip :
                                                   i \in DOMAIN m.db_blocked_ips}])
      [] f.pc = "check" ->
             IF f.ip \notin Held(m, f) THEN Goes(m, Finished(f, FALSE, "NotBlocked"))
             ELSE Goes(m, [f EXCEPT !.pc = "remove"])
      [] f.pc = "remove" ->
             LET rem == Remove(m, f.ip, Calm) IN
             Goes(rem.m, [f EXCEPT !.pc = "forget", !.calls = @ \o rem.m.calls])
      [] f.pc = "forget" ->
             IF f.ip \notin Held(m, f) THEN Goes(m, Finished(f, FALSE, "Error"))
             ELSE LET g == Forget(m, f)
                      m2 == [g.m EXCEPT !.db_blocked_ips = DeleteRows(@, "ip", f.ip)]
                  IN  Goes(log_response(m2, "unblock_ip", IpTarget(f.ip),
                                        Reason("Manual unblock", NoScore), TRUE, Calm),
                           Finished(g.f, TRUE, "Unblocked"))

\* auto_unblock_expired: the SELECT, then unblock_ip for each expired row
ExpiredRows(m) ==
    SelectSeq([i \in DOMAIN m.db_blocked_ips |-> m.db_blocked_ips[i]],
              LAMBDA row : m.now >= row.auto_unblock_time)

auto_unblock_expired_step(m, f) ==
    IF f.pc = "select"
    THEN LET rows == ExpiredRows(m) IN
         IF rows = <<>> THEN Goes(m, Finished(f, TRUE, ""))
         ELSE Goes(m, [f EXCEPT !.rows = rows, !.ip = rows[1].ip, !.pc = "check"])
    ELSE LET r == unblock_ip_step(m, f) IN
         IF r.f.pc # "done" \/ Len(f.rows) = 1 THEN r
         ELSE Goes(r.m, [r.f EXCEPT !.rows = Tail(@), !.ip = f.rows[2].ip,
                                    !.pc = "check"])

\* block_ip, one statement group at a time: the whitelist and membership
\* tests, the add commands, then set.add, the INSERT and the audit entry
block_ip_step(m, f, cfg) ==
    CASE f.pc = "check" ->
             IF f.ip = NoIp \/ whitelisted_ip[f.ip]
             THEN Goes(m, Finished(f, FALSE, "Whitelisted"))
             ELSE IF f.ip \in m.blocked_ips
             THEN Goes(m, Finished(f, FALSE, "AlreadyBlocked"))
             ELSE Goes(m, [f EXCEPT !.pc = "install"])
      [] f.pc = "install" ->
             LET inst == Install(m, f.ip, Calm) IN
             Goes(inst.m, [f EXCEPT !.pc = "record", !.calls = @ \o inst.m.calls])
      [] f.pc = "record" ->
             LET reason == IF f.auto THEN Reason("Auto-block: Risk score", 90)
                           ELSE DefaultReason
                 hours == IF f.auto THEN cfg.default_block_duration_hours
                          ELSE DefaultDuration
                 m1 == [m EXCEPT !.blocked_ips = @ \cup {f.ip}]
                 row == [ip |-> f.ip, reason |-> reason, timestamp |-> m.now,
                         auto_unblock_time |-> m.now + hours * m.hour]
                 m2 == [m1 EXCEPT !.db_blocked_ips = InsertOrReplace(@, "ip", row)]
             IN  Goes(log_response(m2, "block_ip", IpTarget(f.ip), reason, TRUE, Calm),
                      IF f.auto THEN [f EXCEPT !.pc = "count", !.ok = TRUE, !.msg = "Blocked"]
                      ELSE Finished(f, TRUE, "Blocked"))

\* a caller enters a method
Enter(caller, op, ip, auto, main) ==
    /\ steps < MaxSteps
    /\ threads[caller].pc \in {"", "done"}
    /\ threads' = [threads EXCEPT ![caller] =
                      [NoFrame EXCEPT !.op = op, !.ip = ip, !.auto = auto, !.main = main,
                                      !.pc = CASE main -> "load"
                                               [] op = "auto_unblock_expired" -> "select"
                                               [] auto -> "limits"
                                               [] OTHER -> "check"]]
    /\ steps' = steps + 1
    /\ UNCHANGED << blocked_ips, db_blocked_ips, suspended_processes,
                    db_suspended_processes, audit_log, response_log, Scanner, now,
                    fw_rules, rule_files, procs, last, faults, cycle >>

\* a caller executes its next statements. An automatic block is
\* handle_suspicious_connection's: check_auto_block_limits before block_ip,
\* and `self.auto_block_count += 1`, a read and a write, after its success.
Step(caller) ==
    LET f == threads[caller] IN
    /\ f.pc \notin {"", "done"}
    /\ CASE f.pc = "limits" ->
               LET lim == check_auto_block_limits(auto_block_count, last_auto_block_reset,
                                                  now, TicksPerHour, config) IN
               /\ auto_block_count' = lim.count
               /\ last_auto_block_reset' = lim.reset
               /\ threads' = [threads EXCEPT ![caller] =
                                 IF lim.ok THEN [f EXCEPT !.pc = "check"]
                                 ELSE Finished(f, FALSE, "")]
               /\ UNCHANGED << blocked_ips, db_blocked_ips, suspended_processes,
                               db_suspended_processes, audit_log, response_log,
                               fw_rules, rule_files, procs >>
        [] f.pc = "count" ->
               /\ threads' = [threads EXCEPT ![caller] = [f EXCEPT !.pc = "store",
                                                                    !.count = auto_block_count]]
               /\ UNCHANGED << blocked_ips, db_blocked_ips, suspended_processes,
                               db_suspended_processes, audit_log, response_log,
                               fw_rules, rule_files, procs, auto_block_count,
                               last_auto_block_reset >>
        [] f.pc = "store" ->
               /\ auto_block_count' = f.count + 1
               /\ threads' = [threads EXCEPT ![caller] = [f EXCEPT !.pc = "done"]]
               /\ UNCHANGED << blocked_ips, db_blocked_ips, suspended_processes,
                               db_suspended_processes, audit_log, response_log,
                               fw_rules, rule_files, procs, last_auto_block_reset >>
        [] OTHER ->
               LET r == CASE f.op = "block_ip" -> block_ip_step(Manager, f, config)
                          [] f.op = "unblock_ip" -> unblock_ip_step(Manager, f)
                          [] OTHER -> auto_unblock_expired_step(Manager, f)
               IN  /\ SetManager(r.m)
                   /\ threads' = [threads EXCEPT ![caller] = r.f]
                   /\ UNCHANGED << auto_block_count, last_auto_block_reset >>
    /\ UNCHANGED << config, system, now, last, steps, faults, cycle >>

\* the addresses of the race: a public one and a whitelisted one
Raced == {PublicIp1, PrivateIp}

InitRace ==
    /\ InitEngine
    /\ config = Enabled(TRUE, FALSE, 2)
    /\ system = "linux"

NextRace ==
    \/ \E caller \in Callers :
          \/ \E ip \in Raced, auto \in BOOLEAN : Enter(caller, "block_ip", ip, auto, FALSE)
          \/ \E ip \in Raced, main \in BOOLEAN : Enter(caller, "unblock_ip", ip, FALSE, main)
          \/ Enter(caller, "auto_unblock_expired", NoIp, FALSE, FALSE)
          \/ Step(caller)
    \/ Tick

SpecRace == InitRace /\ [][NextRace]_vars

(***************************************************************************)
(* SpecBudget: the automatic budget on a clock that ticks every half hour, *)
(* so that two evaluations on either side of a reset can be less than an   *)
(* hour apart. The loop handles connections without a pid under automatic  *)
(* mode; sweeps and the clock interleave.                                  *)
(***************************************************************************)
\* clock ticks in one hour, and in one run, on the half-hour clock
FineTicksPerHour == 2
MaxFineTime == 3

\* the connections of the model that no process owns
Unowned == { connection \in Connections : connection.pid = NoPid }

\* automatic mode with a budget of one or two blocks an hour
BudgetConfigs == { Enabled(TRUE, FALSE, n) : n \in {1, 2} }

\* real_time_monitor_with_response, one connection of a cycle, on the
\* half-hour clock
MonitorOnFineClock(connection, env) ==
    /\ steps < MaxSteps
    /\ Answers(env, { [Calm EXCEPT !.fw = "fail"] })
    /\ LET r == monitor_connection([Manager EXCEPT !.hour = FineTicksPerHour],
                                   auto_block_count, last_auto_block_reset,
                                   config, connection, "4", env)
       IN  /\ SetManager(r.m)
           /\ auto_block_count' = r.count
           /\ last_auto_block_reset' = r.reset
           /\ last' = [ NoCall EXCEPT !.op = "monitor", !.ip = r.ip, !.ok = r.ok,
                                      !.msg = r.msg, !.calls = r.m.calls,
                                      !.conn = connection,
                                      !.score = risk_scores[connection],
                                      !.path = r.path, !.invoked = r.invoked ]
    /\ steps' = steps + 1
    /\ UNCHANGED << config, system, now, threads, cycle >>

\* half an hour passes
FineTick ==
    /\ now < MaxFineTime
    /\ now' = now + 1
    /\ UNCHANGED << blocked_ips, db_blocked_ips, suspended_processes,
                    db_suspended_processes, audit_log, response_log, Scanner,
                    fw_rules, rule_files, procs, last, steps, faults, threads,
                    cycle >>

InitBudget ==
    /\ InitEngine
    /\ config \in BudgetConfigs
    /\ system = "linux"

NextBudget ==
    \/ \E connection \in Unowned, env \in {Calm, [Calm EXCEPT !.fw = "fail"]} :
            MonitorOnFineClock(connection, env)
    \/ SweepExpired(Calm)
    \/ FineTick

SpecBudget == InitBudget /\ [][NextBudget]_vars

(***************************************************************************)
(* SpecSweep: addresses are blocked, time passes, and a sweep unblocks the *)
(* expired ones; the environment answers each unblock of the pass on its   *)
(* own.                                                                    *)
(***************************************************************************)
\* the answers that differ from Calm during the unblock of one row: the delete
\* command returns non-zero, the command cannot be run, the DELETE fails
RowFaults ==
    { [Calm EXCEPT !.fw = "fail"], [Calm EXCEPT !.fw = "raise"],
      [Calm EXCEPT !.db = FALSE] }

\* the rows of envs that differ from Calm
Failing(envs) == { i \in DOMAIN envs : envs[i] # Calm }

\* auto_unblock_expired, each row's unblock answered by envs
SweepEach(envs) ==
    /\ steps < MaxSteps
    /\ DOMAIN envs = DOMAIN db_blocked_ips
    /\ faults + Cardinality(Failing(envs)) <= MaxFaults
    /\ faults' = faults + Cardinality(Failing(envs))
    /\ Returns("auto_unblock_expired", NoIp, NoPid,
               Return(SweepRows(Manager, db_blocked_ips, envs), TRUE, ""))
    /\ UNCHANGED << Scanner, now, threads, cycle >>

NextSweep ==
    \/ \E ip \in Addresses, d \in Durations : BlockAddress(ip, d, Calm)
    \/ \E envs \in [DOMAIN db_blocked_ips -> {Calm} \cup RowFaults] : SweepEach(envs)
    \/ Tick

SpecSweep == Init /\ [][NextSweep]_vars

(***************************************************************************)
(* SpecThreshold: the monitoring loop in automatic mode under each         *)
(* auto_block_threshold, on connections of every score.                    *)
(***************************************************************************)
\* automatic mode with a block threshold below, at and above the score that
\* raises an alert, and the default
ThresholdConfigs ==
    { [Enabled(TRUE, FALSE, 2) EXCEPT !.auto_block_threshold = t] :
        t \in {45, 50, 60, 80} }

InitThreshold ==
    /\ InitEngine
    /\ config \in ThresholdConfigs
    /\ system = "linux"

NextThreshold ==
    \/ \E connection \in Ranked : MonitorConnection(connection, "4", Calm)
    \/ SweepExpired(Calm)
    \/ Tick

SpecThreshold == InitThreshold /\ [][NextThreshold]_vars

(***************************************************************************)
(* SpecLive: the monitoring process beside a second run of the monitor     *)
(* over the same responses.db and the same firewall. Each process has its  *)
(* own manager: the set of blocked addresses and the audit tail are its    *)
(* own, the tables and the firewall rules are shared. The loop of a        *)
(* running process goes round for ever (`while True`, the handlers around  *)
(* the body keep it going): the sweep, the connections of the cycle, the   *)
(* sleep, which the weak fairness of the sweep and of the end of the cycle *)
(* states for each process; the second process may be stopped (Ctrl+C) at  *)
(* any time. No call meets a fault.                                        *)
(***************************************************************************)
\* the addresses the two processes meet
Watched == {PublicIp1, PublicIp2}

\* the second process: its frame holds the set of its own manager
Peer == threads["b"]
PeerManager ==
    [Manager EXCEPT !.blocked_ips = Peer.blocked_ips,
                    !.suspended_processes = {},
                    !.audit_log = <<>>]

\* what a call of the second process leaves to the first: the tables and
\* the firewall, not the sets and the audit tail of the first's manager
Shares(m) ==
    /\ db_blocked_ips' = m.db_blocked_ips
    /\ db_suspended_processes' = m.db_suspended_processes
    /\ response_log' = m.response_log
    /\ fw_rules' = m.fw_rules
    /\ rule_files' = m.rule_files
    /\ procs' = m.procs
    /\ UNCHANGED << blocked_ips, suspended_processes, audit_log >>

\* a second run of the program constructs its manager from the tables
PeerStarts ==
    /\ steps < MaxSteps
    /\ Peer.pc = ""
    /\ LET r == SecurityResponseManager(Manager, Calm) IN
       /\ Shares(r.m)
       /\ threads' = [threads EXCEPT !["b"] =
                         [NoFrame EXCEPT !.op = "monitor", !.main = TRUE, !.pc = "sleep",
                                         !.blocked_ips = r.m.blocked_ips]]
    /\ steps' = steps + 1
    /\ UNCHANGED << Scanner, now, last, faults, cycle >>

\* the second process blocks an address of its cycle
PeerBlocks(ip, duration_hours) ==
    /\ steps < MaxSteps
    /\ Peer.pc = "handle"
    /\ LET r == block_ip(PeerManager, ip, DefaultReason, duration_hours, Calm) IN
       /\ Shares(r.m)
       /\ threads' = [threads EXCEPT !["b"] =
                         [Peer EXCEPT !.ip = ip, !.ok = r.ok, !.msg = r.msg,
                                      !.blocked_ips = r.m.blocked_ips]]
    /\ steps' = steps + 1
    /\ UNCHANGED << Scanner, now, last, faults, cycle >>

\* the sweep at the start of a cycle of the second process
PeerSweeps ==
    /\ Peer.pc = "sleep"
    /\ \E m \in {auto_unblock_expired(PeerManager, Calm)} :
       /\ Shares(m)
       /\ threads' = [threads EXCEPT !["b"] =
                         [Peer EXCEPT !.ip = NoIp, !.ok = TRUE, !.msg = "",
                                      !.pc = "handle",
                                      !.blocked_ips = m.blocked_ips]]
    /\ UNCHANGED << Scanner, now, last, steps, faults, cycle >>

\* the end of a cycle of the second process: time.sleep(interval)
PeerEnds ==
    /\ Peer.pc = "handle"
    /\ threads' = [threads EXCEPT !["b"] = [Peer EXCEPT !.pc = "sleep"]]
    /\ UNCHANGED << blocked_ips, db_blocked_ips, suspended_processes,
                    db_suspended_processes, audit_log, response_log, Scanner, now,
                    fw_rules, rule_files, procs, last, steps, faults, cycle >>

\* the second process is stopped: KeyboardInterrupt leaves its loop
PeerStops ==
    /\ Peer.pc \in {"sleep", "handle"}
    /\ threads' = [threads EXCEPT !["b"] = [Peer EXCEPT !.pc = "done"]]
    /\ UNCHANGED << blocked_ips, db_blocked_ips, suspended_processes,
                    db_suspended_processes, audit_log, response_log, Scanner, now,
                    fw_rules, rule_files, procs, last, steps, faults, cycle >>

\* the sweep at the start of a cycle of the monitoring process
SweepCycle ==
    /\ cycle.pc = "sleep"
    /\ \E m \in {auto_unblock_expired(Manager, Calm)} :
       /\ SetManager(m)
       /\ last' = [NoCall EXCEPT !.op = "auto_unblock_expired", !.ok = TRUE,
                                   !.calls = m.calls]
    /\ cycle' = [cycle EXCEPT !.pc = "handle"]
    /\ UNCHANGED << Scanner, now, steps, faults, threads >>

\* the monitoring process blocks an address of its cycle
BlockInCycle(ip, duration_hours) ==
    /\ cycle.pc = "handle"
    /\ BlockAddress(ip, duration_hours, Calm)

InitLive ==
    /\ InitEngine
    /\ config = DefaultConfig
    /\ system = "linux"

NextLive ==
    \/ SweepCycle
    \/ \E ip \in Watched, d \in Durations : BlockInCycle(ip, d)
    \/ EndCycle
    \/ PeerStarts
    \/ \E ip \in Watched, d \in Durations : PeerBlocks(ip, d)
    \/ PeerSweeps
    \/ PeerEnds
    \/ PeerStops
    \/ Tick

SpecLive ==
    /\ InitLive
    /\ [][NextLive]_vars
    /\ WF_vars(SweepCycle)
    /\ WF_vars(EndCycle)
    /\ WF_vars(PeerSweeps)
    /\ WF_vars(PeerEnds)

(***************************************************************************)
(* Properties of the address operations (Spec).                            *)
(***************************************************************************)
\* the calls of a sequence that install a deny rule
Installs(calls) == {i \in DOMAIN calls : calls[i].cmd \in {"add", "load"}}

\* the calls of a sequence that remove a deny rule
Removals(calls) == {i \in DOMAIN calls : calls[i].cmd = "delete"}

\* the step is a call of operation op
Calls(op) == steps' = steps + 1 /\ last'.op = op

\* loopback, private, inside the configured range 8.8.8.0/24, the configured
\* exact entry 9.9.9.9
WhitelistedAddresses == {Loopback, PrivateIp, InRangeIp, ExactIp}

\* C1: block_ip on a whitelisted address always fails with Whitelisted, issues
\* no firewall install call, and the address never enters the ledger (neither
\* the in-memory set nor the durable table) nor the firewall.
C1_WhitelistedNeverBlocked ==
    /\ \A ip \in WhitelistedAddresses :
          /\ ip \notin blocked_ips
          /\ RowsOf(db_blocked_ips, "ip", ip) = {}
          /\ \A dir \in Dirs : fw_rules[<<dir, ip>>] = 0
    /\ (last.op = "block_ip" /\ last.ip \in WhitelistedAddresses) =>
          /\ ~last.ok
          /\ last.msg = "Whitelisted"
          /\ last.calls = <<>>

\* C1 witness: a whitelisted address was refused while another address was blocked
C1_Witness ==
    /\ last.op = "block_ip"
    /\ last.ip = InRangeIp
    /\ last.msg = "Whitelisted"
    /\ blocked_ips # {}

\* C3: a block_ip that immediately follows a successful block_ip of the same
\* address returns AlreadyBlocked, issues no firewall call and leaves the
\* address's single ledger record (in memory and in the table) as it was.
C3_SecondBlockRejected ==
    [][ (last.op = "block_ip" /\ last.ok /\ Calls("block_ip") /\ last'.ip = last.ip) =>
            /\ ~last'.ok
            /\ last'.msg = "AlreadyBlocked"
            /\ last'.calls = <<>>
            /\ fw_rules' = fw_rules
            /\ last.ip \in blocked_ips'
            /\ Cardinality(RowsOf(db_blocked_ips', "ip", last.ip)) = 1
            /\ db_blocked_ips' = db_blocked_ips ]_vars

\* C3 witness: the second of two calls was rejected, so the first had blocked
C3_Witness ==
    /\ steps = 2
    /\ last.op = "block_ip"
    /\ last.msg = "AlreadyBlocked"
    /\ Cardinality(RowsOf(db_blocked_ips, "ip", last.ip)) = 1

\* C4: a successful block_ip of an address followed by an unblock_ip of it that
\* meets no fault leaves no ledger record, the unblock issues a matching
\* removal for every install the block issued, and the firewall holds no rule
\* for the address afterwards, on every platform.
C4_RoundTrip ==
    [][ (last.op = "block_ip" /\ last.ok /\ Calls("unblock_ip")
            /\ last'.ip = last.ip /\ faults' = faults) =>
            /\ last'.ok
            /\ last.ip \notin blocked_ips'
            /\ RowsOf(db_blocked_ips', "ip", last.ip) = {}
            /\ \A i \in Installs(last.calls) :
                    \E j \in Removals(last'.calls) :
                        last'.calls[j].ip = last.calls[i].ip
            /\ \A dir \in Dirs : fw_rules'[<<dir, last.ip>>] = 0 ]_vars

\* the addresses with a ledger record (in memory and in the table) whose
\* expiry has passed
Expired ==
    { ip \in blocked_ips :
        \E i \in DOMAIN db_blocked_ips :
            db_blocked_ips[i].ip = ip /\ db_blocked_ips[i].auto_unblock_time <= now }

\* C5: a sweep that meets no fault removes every ledger record whose expiry
\* has passed, and each unblock entry it appends to the audit trail carries
\* a reason other than the "Manual unblock" of a manual unblock_ip.
C5_SweepReasonDistinct ==
    [][ (Calls("auto_unblock_expired") /\ faults' = faults) =>
            /\ \A ip \in Expired :
                    ip \notin blocked_ips' /\ RowsOf(db_blocked_ips', "ip", ip) = {}
            /\ Len(response_log') = Len(response_log) + Cardinality(Expired)
            /\ \A i \in (Len(response_log) + 1)..Len(response_log') :
                    /\ response_log'[i].action = "unblock_ip"
                    /\ response_log'[i].reason.text # "Manual unblock" ]_vars

\* C5, without the reason: what the sweep does remove and record
C5_SweepRemoves ==
    [][ (Calls("auto_unblock_expired") /\ faults' = faults) =>
            /\ \A ip \in Expired :
                    ip \notin blocked_ips' /\ RowsOf(db_blocked_ips', "ip", ip) = {}
            /\ Len(response_log') = Len(response_log) + Cardinality(Expired)
            /\ \A i \in (Len(response_log) + 1)..Len(response_log') :
                    response_log'[i].action = "unblock_ip" ]_vars

(***************************************************************************)
(* Properties of the process operations (SpecProc) and of the audit trail  *)
(* (SpecExec).                                                             *)
(***************************************************************************)
\* C2: terminate_process on an existing process whose pid is at or below the
\* low-PID floor, whatever name the host reports for it (the empty name
\* included), returns Whitelisted and signals nothing.
C2_LowPidNeverTerminated ==
    [][ (Calls("terminate_process") /\ last'.pid # NoPid /\ last'.pid <= LowPidFloor
            /\ procs[last'.pid] # "gone" /\ last'.msg # "AccessDenied") =>
            /\ ~last'.ok
            /\ last'.msg = "Whitelisted"
            /\ last'.calls = <<>>
            /\ procs' = procs ]_vars

\* the five operations of the executor
ExecutorOps ==
    {"block_ip", "unblock_ip", "suspend_process", "resume_process", "terminate_process"}

\* C10: every call of block_ip, unblock_ip, suspend_process, resume_process or
\* terminate_process during which the store works appends exactly one entry
\* to the audit trail (the table and the in-memory tail), whatever it returns.
C10_OneAuditEntryPerCall ==
    [][ (steps' = steps + 1 /\ last'.op \in ExecutorOps /\ faults' = faults) =>
            /\ Len(response_log') = Len(response_log) + 1
            /\ Len(audit_log') = Len(audit_log) + 1
            /\ response_log'[Len(response_log')].success = last'.ok ]_vars

(***************************************************************************)
(* Properties of the monitoring loop (SpecCtl).                            *)
(***************************************************************************)
\* the step handles one connection of a cycle
Monitors == steps' = steps + 1 /\ last'.op = "monitor"

\* the budget window of the last reset is still open, and it is spent
SameHour == now - last_auto_block_reset <= TicksPerHour
Exhausted == SameHour /\ auto_block_count >= config.max_auto_blocks_per_hour

\* the addresses of the model outside every whitelist
PublicAddresses == {PublicIp1, PublicIp2}

\* the audit entries of successful automatic blocks and terminations
AutoBlocks ==
    { i \in DOMAIN response_log :
        /\ response_log[i].action = "block_ip"
        /\ response_log[i].success
        /\ response_log[i].reason.text = "Auto-block: Risk score" }

AutoTerminations ==
    { i \in DOMAIN response_log :
        /\ response_log[i].action = "terminate_process"
        /\ response_log[i].success
        /\ response_log[i].reason.text = "Auto-terminate: Risk score" }

\* the step leaves the ledger, the firewall and the processes as they were
Untouched ==
    /\ last'.calls = <<>>
    /\ UNCHANGED << blocked_ips, db_blocked_ips, suspended_processes,
                    db_suspended_processes, fw_rules, procs, response_log >>

\* C6, as stated: in automatic mode, once the budget of the hour is spent,
\* a connection scoring at or above auto_block_threshold from a further
\* non-whitelisted address is left unactioned, whether or not manual
\* confirmation is enabled: no operation of the executor is invoked for it
\* on any path.
C6_LaterLeftUnactioned ==
    [][ (Monitors /\ config.enabled /\ config.auto_response /\ Exhausted
            /\ last'.score >= config.auto_block_threshold
            /\ last'.conn.foreign_ip \in PublicAddresses \ blocked_ips) =>
            /\ last'.invoked = ""
            /\ Untouched ]_vars

\* C6, amended: in automatic mode, while the budget of the hour is not spent,
\* a connection without a pid that scores at or above auto_block_threshold,
\* from a non-whitelisted address not yet blocked, is blocked automatically
\* when nothing fails, and the block is counted. Once the budget is spent no
\* automatic operation is attempted and the counter stays; the connection is
\* left unactioned only when manual confirmation is disabled, otherwise (its
\* score being above 50) it goes to the prompt, where the operator decides.
C6_RateLimit ==
    [][ (Monitors /\ config.enabled /\ config.auto_response) =>
            /\ Exhausted =>
                  /\ last'.path # "auto"
                  /\ auto_block_count' = auto_block_count
                  /\ ~config.require_confirmation => (last'.invoked = "" /\ Untouched)
                  /\ (config.require_confirmation /\ last'.score > 50) =>
                        last'.path = "prompt"
                  /\ last'.invoked # "" => last'.path = "prompt"
            /\ ( /\ ~Exhausted
                 /\ last'.score >= config.auto_block_threshold
                 /\ last'.conn.pid = NoPid
                 /\ last'.conn.foreign_ip \in PublicAddresses \ blocked_ips
                 /\ faults' = faults ) =>
                  /\ last'.path = "auto"
                  /\ last'.invoked = "block_ip"
                  /\ last'.ok
                  /\ last'.conn.foreign_ip \in blocked_ips'
                  /\ auto_block_count' = (IF SameHour THEN auto_block_count ELSE 0) + 1
        ]_vars

\* C6 witness: the budget is spent, and a connection scoring above the block
\* threshold from a non-whitelisted, unblocked address was left unactioned
C6_Witness ==
    /\ config.auto_response
    /\ auto_block_count = config.max_auto_blocks_per_hour
    /\ last.op = "monitor"
    /\ last.score >= config.auto_block_threshold
    /\ last.conn.foreign_ip \in PublicAddresses \ blocked_ips
    /\ last.path = ""
    /\ last.invoked = ""

Moderate ==
    /\ Monitors
    /\ config.enabled
    /\ config.require_confirmation
    /\ last'.score > 50
    /\ last'.score < config.auto_block_threshold
    /\ config.auto_block_threshold <= config.auto_terminate_threshold

\* C8, as stated: such a connection gets no automatic block or terminate and
\* is surfaced for a human decision, with automatic mode enabled or disabled.
C8_ModerateAlwaysSurfaced ==
    [][ Moderate =>
            /\ ~(last'.path = "auto" /\ last'.invoked # "")
            /\ last'.path = "prompt" ]_vars

\* C8, amended: such a connection never gets an automatic block or terminate;
\* it is surfaced for a human decision when automatic mode is disabled or the
\* budget of the hour is spent; with automatic mode enabled and budget left
\* it is not surfaced and nothing is done.
C8_ModerateSurfacedUnlessAutomatic ==
    [][ Moderate =>
            /\ ~(last'.path = "auto" /\ last'.invoked # "")
            /\ (~config.auto_response \/ Exhausted) => last'.path = "prompt"
            /\ (config.auto_response /\ ~Exhausted) =>
                  /\ last'.path = "auto"
                  /\ last'.invoked = ""
                  /\ Untouched ]_vars

\* C8 witness: a connection scoring 65 under thresholds 80/90 was surfaced and
\* the operator had its address blocked
C8_Witness ==
    /\ last.op = "monitor"
    /\ last.score = 65
    /\ config.auto_block_threshold = 80
    /\ config.auto_terminate_threshold = 90
    /\ config.require_confirmation
    /\ last.path = "prompt"
    /\ last.invoked = "block_ip"
    /\ last.ok

\* the step handles a connection whose foreign address lies inside the
\* configured range 8.8.8.0/24
InsideRange == Monitors /\ last'.conn.foreign_ip = InRangeIp

\* C9, as stated: for a connection whose foreign address lies inside a
\* configured whitelist range the controller never calls block_ip.
C9_NeverCallsBlock ==
    [][ InsideRange => last'.invoked # "block_ip" ]_vars

\* C9, amended: for such a connection the automatic path never calls
\* block_ip, whatever the score; the prompt calls block_ip when the operator
\* chooses to block, and that call is refused with Whitelisted; either way no
\* firewall call is made and the address never enters the ledger.
C9_RangeNeverBlocked ==
    [][ InsideRange =>
            /\ last'.path = "auto" => last'.invoked # "block_ip"
            /\ last'.invoked = "block_ip" =>
                  /\ last'.path = "prompt"
                  /\ ~last'.ok
                  /\ last'.msg = "Whitelisted"
            /\ \A i \in DOMAIN last'.calls : last'.calls[i].cmd \notin {"add", "load"}
            /\ InRangeIp \notin blocked_ips'
            /\ RowsOf(db_blocked_ips', "ip", InRangeIp) = {}
            /\ fw_rules' = fw_rules ]_vars

\* C9 witness: in automatic mode with budget left, a connection from inside
\* the range scored above the block threshold and nothing was invoked
C9_Witness ==
    /\ last.op = "monitor"
    /\ last.conn.foreign_ip = InRangeIp
    /\ last.score >= config.auto_block_threshold
    /\ last.path = "auto"
    /\ last.invoked = ""
    /\ blocked_ips = {}

(***************************************************************************)
(* Properties of failing firewall commands (Spec).                         *)
(***************************************************************************)
\* the platforms block_ip and unblock_ip have commands for
Supported == {"linux", "darwin", "windows"}

\* the install commands of a call that answered non-zero or raised
FailedInstalls(calls) ==
    {i \in Installs(calls) : calls[i].rc \in {"fail", "raise"}}

\* the deny rule of a direction was installed by a command that returned zero
InstallConfirmed(calls, dir) ==
    \E i \in Installs(calls) :
        /\ calls[i].rc = "ok"
        /\ calls[i].cmd = "load" \/ calls[i].dir = dir

\* the ledger, in memory and in the table, is as it was
LedgerUnchanged ==
    /\ blocked_ips' = blocked_ips
    /\ db_blocked_ips' = db_blocked_ips

\* C11: when a firewall install command of block_ip returns non-zero or
\* raises, the call fails and the ledger is unchanged: the address is neither
\* in the in-memory set nor in the table, so that a later block_ip of it is
\* not rejected as AlreadyBlocked.
C11_FailedInstallLeavesLedger ==
    [][ (Calls("block_ip") /\ FailedInstalls(last'.calls) # {}) =>
            /\ ~last'.ok
            /\ LedgerUnchanged
            /\ last'.ip \notin blocked_ips' ]_vars

\* C11, for the first install command only (the inbound rule, or the pfctl
\* load): when it returns non-zero or raises, the call fails and the ledger
\* is unchanged
C11_FirstInstallFailed ==
    [][ (Calls("block_ip") /\ 1 \in FailedInstalls(last'.calls)) =>
            /\ ~last'.ok
            /\ LedgerUnchanged
            /\ last'.ip \notin blocked_ips' ]_vars

\* C12: a ledger record is inserted for an address only by a block_ip whose
\* inbound and outbound deny rules were both installed by commands that
\* returned zero; if either install fails no record is inserted.
C12_RecordOnlyAfterBothRules ==
    [][ (Calls("block_ip")
            /\ \/ last'.ip \in blocked_ips' \ blocked_ips
               \/ RowsOf(db_blocked_ips', "ip", last'.ip) # {}
                  /\ RowsOf(db_blocked_ips, "ip", last'.ip) = {}) =>
            \A dir \in Dirs : InstallConfirmed(last'.calls, dir) ]_vars

\* the delete commands of the call that failed although the rule was there
FailedDeletes ==
    { i \in Removals(last'.calls) :
        /\ last'.calls[i].rc = "fail"
        /\ fw_rules[<<last'.calls[i].dir, last'.ip>>] > 0 }

C14_SuspendRefusals ==
    [][ (Calls("suspend_process") /\ last'.pid # NoPid /\ procs[last'.pid] # "gone"
            /\ last'.msg # "AccessDenied") =>
            LET pid == last'.pid
                listed == pid <= LowPidFloor \/ whitelisted_process[ProcessName(pid), pid]
            IN  /\ listed =>
                      /\ last'.msg = "Whitelisted"
                      /\ last'.calls = <<>>
                      /\ procs' = procs
                /\ (~listed /\ pid \in suspended_processes) =>
                      /\ last'.msg = "AlreadySuspended"
                      /\ last'.calls = <<>>
                      /\ procs' = procs
                /\ \A p \in Pids :
                      Cardinality(RowsOf(db_suspended_processes', "pid", p)) <= 1
        ]_vars

\* C15: resume_process on a pid that is not in the set of suspended pids
\* returns NotSuspended and signals nothing; on a pid in the set whose process
\* still exists (as after a successful suspend_process), when nothing fails,
\* it resumes the process with one call and leaves the pid neither in the set
\* nor in the table.
C15_ResumeUndoesSuspend ==
    [][ Calls("resume_process") =>
            LET pid == last'.pid IN
            /\ pid \notin suspended_processes =>
                  /\ ~last'.ok
                  /\ last'.msg = "NotSuspended"
                  /\ last'.calls = <<>>
                  /\ UNCHANGED << procs, suspended_processes, db_suspended_processes >>
            /\ (pid \in suspended_processes /\ procs[pid] # "gone" /\ faults' = faults) =>
                  /\ last'.ok
                  /\ last'.calls = << ProcCall("resume", pid) >>
                  /\ procs'[pid] = "running"
                  /\ pid \notin suspended_processes'
                  /\ RowsOf(db_suspended_processes', "pid", pid) = {}
        ]_vars

\* C15 witness: a process was suspended, then resumed; it runs and no record
\* of it is left
C15_Witness ==
    /\ last.op = "resume_process"
    /\ last.ok
    /\ Len(response_log) = 2
    /\ response_log[1].action = "suspend_process"
    /\ response_log[1].success
    /\ procs[last.pid] = "running"
    /\ last.pid \notin suspended_processes
    /\ db_suspended_processes = <<>>

\* C16: when a start of the engine loads the record of a pid whose process no
\* longer exists, or resume_process is called for a recorded pid whose
\* process no longer exists, the record leaves the set of suspended pids
\* (what get_status lists) and the table.
C16_StaleRecordsPurged ==
    [][ \A pid \in Pids \ {NoPid} :
            ( /\ procs[pid] = "gone"
              /\ faults' = faults
              /\ RowsOf(db_suspended_processes, "pid", pid) # {}
              /\ \/ Calls("load_persistent_state")
                 \/ Calls("resume_process") /\ last'.pid = pid
                    /\ pid \in suspended_processes ) =>
                /\ pid \notin suspended_processes'
                /\ RowsOf(db_suspended_processes', "pid", pid) = {}
        ]_vars

\* C17: in terminate_process a kill is issued only right after a terminate
\* that was delivered and a wait that timed out; when the wait sees the
\* process exit nothing more is issued; a whitelisted process is refused
\* before any signal.
C17_KillOnlyAfterGrace ==
    [][ Calls("terminate_process") =>
            LET calls == last'.calls IN
            /\ \A i \in DOMAIN calls :
                  /\ calls[i].cmd = "kill" =>
                        /\ i = 3
                        /\ calls[1] = ProcCall("terminate", last'.pid)
                        /\ calls[2] = Answered(ProcCall("wait", last'.pid), "timeout")
                  /\ (calls[i].cmd = "wait" /\ calls[i].rc = "exited") =>
                        /\ i = Len(calls)
                        /\ procs'[last'.pid] = "gone"
                  /\ calls[i].cmd = "wait" => calls[i - 1].cmd \in {"terminate", "kill"}
            /\ (Len(calls) >= 2 /\ calls[2].rc = "exited") => Len(calls) = 2
            /\ (last'.pid # NoPid /\ whitelisted_process[ProcessName(last'.pid), last'.pid]) =>
                  /\ calls = <<>>
                  /\ procs' = procs
            /\ last'.msg = "Whitelisted" => calls = <<>>
        ]_vars

\* C17 witness: the process outlived the grace period and was killed
C17_Witness ==
    /\ last.op = "terminate_process"
    /\ last.ok
    /\ Len(last.calls) = 4
    /\ last.calls[2].rc = "timeout"
    /\ last.calls[3].cmd = "kill"
    /\ procs[last.pid] = "gone"

(***************************************************************************)
(* Properties of the response decision (SpecCtl).                          *)
(***************************************************************************)
\* C18: in automatic mode with budget left, for a connection that scores at
\* or above both thresholds and carries the pid of a process that is not
\* whitelisted (4821, tmpx) and a foreign address that is not whitelisted,
\* the controller invokes terminate_process and not block_ip: no firewall
\* command is run and the set of blocked addresses and the counter of blocks
\* stay, whether the termination succeeds or fails.
C18_TerminatePreferred ==
    [][ ( /\ Monitors
          /\ config.enabled
          /\ config.auto_response
          /\ ~Exhausted
          /\ last'.score >= config.auto_terminate_threshold
          /\ last'.score >= config.auto_block_threshold
          /\ last'.conn.pid = TmpPid
          /\ last'.conn.program = ProcessName(TmpPid)
          /\ last'.conn.foreign_ip \in PublicAddresses ) =>
            /\ last'.path = "auto"
            /\ last'.invoked = "terminate_process"
            /\ last'.pid = TmpPid
            /\ \A i \in DOMAIN last'.calls :
                  last'.calls[i].cmd \in {"terminate", "wait", "kill"}
            /\ UNCHANGED << blocked_ips, db_blocked_ips, fw_rules >>
            /\ auto_block_count' = IF SameHour THEN auto_block_count ELSE 0
        ]_vars

\* C18 witness: both thresholds were met, the termination was attempted and
\* failed, and the address was not blocked
C18_Witness ==
    /\ last.op = "monitor"
    /\ last.path = "auto"
    /\ last.invoked = "terminate_process"
    /\ ~last.ok
    /\ last.calls # <<>>
    /\ last.score >= config.auto_terminate_threshold
    /\ last.conn.foreign_ip \in PublicAddresses \ blocked_ips

\* C19: with responses disabled, handling a connection, whatever its score,
\* invokes no operation and asks nothing, and leaves the ledger, the
\* firewall, the processes, the audit trail, the counter of blocks and the
\* time of its last reset as they were.
C19_DisabledDoesNothing ==
    [][ (Monitors /\ ~config.enabled) =>
            /\ last'.path = ""
            /\ last'.invoked = ""
            /\ last'.choice = ""
            /\ Untouched
            /\ UNCHANGED << audit_log, rule_files, auto_block_count,
                            last_auto_block_reset >>
        ]_vars

\* C19 witness: with responses disabled and automatic mode set, a connection
\* scoring 90 was seen after the hour of the last reset had passed
C19_Witness ==
    /\ ~config.enabled
    /\ config.auto_response
    /\ last.op = "monitor"
    /\ last.score = 90
    /\ last.path = ""
    /\ now - last_auto_block_reset > TicksPerHour

\* C20: at the prompt, the only operation invoked is the one the operator
\* chose: block_ip for 1, suspend_process for 2, terminate_process for 3
\* followed by y; terminate_process is invoked for no other input; after 3
\* followed by anything else, 4, 5 or an input that is none of the offered
\* numbers, nothing is invoked and the ledger, the firewall, the processes,
\* the audit trail and the counter of blocks stay as they were. The prompt
\* never changes the counter of blocks.
C20_PromptInvokesOnlyTheChoice ==
    [][ (Monitors /\ last'.path = "prompt") =>
            LET choice == last'.choice
                cmds == { last'.calls[i].cmd : i \in DOMAIN last'.calls }
            IN  /\ choice \in Choices
                /\ last'.invoked = "block_ip" =>
                      (choice = "1" /\ cmds \subseteq {"add", "load"})
                /\ last'.invoked = "suspend_process" =>
                      (choice = "2" /\ cmds \subseteq {"suspend"})
                /\ last'.invoked = "terminate_process" =>
                      (choice = "3y" /\ cmds \subseteq {"terminate", "wait", "kill"})
                /\ last'.invoked = "" => cmds = {}
                /\ choice \in {"3n", "4", "5", "x"} =>
                      /\ last'.invoked = ""
                      /\ Untouched
                      /\ UNCHANGED << audit_log, rule_files >>
                /\ UNCHANGED << auto_block_count, last_auto_block_reset >>
        ]_vars

\* C20 witness: the operator chose 3 and declined the confirmation for a
\* connection with a pid; nothing was invoked
C20_Witness ==
    /\ last.op = "monitor"
    /\ last.path = "prompt"
    /\ last.choice = "3n"
    /\ last.conn.pid # NoPid
    /\ last.invoked = ""
    /\ procs[last.conn.pid] = "running"

(***************************************************************************)
(* Properties of the start of the engine and of the two stores of the      *)
(* ledger, the sets in memory and the tables (SpecExec).                   *)
(***************************************************************************)
\* the addresses and the pids with a row in the tables
StoredIps == { db_blocked_ips[i].ip : i \in DOMAIN db_blocked_ips }
StoredPids == { db_suspended_processes[i].pid : i \in DOMAIN db_suspended_processes }

\* C23: when the engine is started again while its set of blocked addresses
\* agrees with the table, and the store can be read, the new manager holds
\* the same set, over the same rows, and runs no firewall command; block_ip
\* on an address of that set then returns AlreadyBlocked with no command;
\* and a sweep after the start removes every address whose expiry passed.
C23_BlocksSurviveRestart ==
    [][ /\ ( /\ steps' = steps + 1
             /\ last'.op = "load_persistent_state"
             /\ faults' = faults
             /\ blocked_ips = StoredIps ) =>
                /\ blocked_ips' = blocked_ips
                /\ db_blocked_ips' = db_blocked_ips
                /\ fw_rules' = fw_rules
                /\ last'.calls = <<>>
        /\ ( /\ last.op = "load_persistent_state"
             /\ Calls("block_ip")
             /\ last'.ip \in blocked_ips ) =>
                /\ ~last'.ok
                /\ last'.msg = "AlreadyBlocked"
                /\ last'.calls = <<>>
                /\ UNCHANGED << blocked_ips, db_blocked_ips, fw_rules >>
        /\ ( /\ last.op = "load_persistent_state"
             /\ Calls("auto_unblock_expired")
             /\ faults' = faults ) =>
                \A i \in DOMAIN db_blocked_ips :
                    ( /\ db_blocked_ips[i].auto_unblock_time <= now
                      /\ db_blocked_ips[i].ip \in blocked_ips ) =>
                        /\ db_blocked_ips[i].ip \notin blocked_ips'
                        /\ db_blocked_ips[i].ip \notin StoredIps'
                        /\ fw_rules'[<<"in", db_blocked_ips[i].ip>>] = 0
      ]_vars

\* C23 witness: an address was blocked, the engine was started again and
\* held it, and after its expiry the sweep released it
C23_Witness ==
    /\ last.op = "auto_unblock_expired"
    /\ faults = 0
    /\ Len(response_log) = 2
    /\ response_log[1].action = "block_ip"
    /\ response_log[1].success
    /\ response_log[2].action = "unblock_ip"
    /\ Len(audit_log) = 1
    /\ blocked_ips = {}
    /\ db_blocked_ips = <<>>

\* C24: an engine that has started holds in memory what the tables hold:
\* when the store cannot be opened or its tables cannot be read, no engine
\* is running after the start.
C24_NoStartWithoutStore ==
    (last.op = "load_persistent_state") =>
        /\ blocked_ips = StoredIps
        /\ suspended_processes = StoredPids

\* C25: when block_ip or suspend_process has applied its external action
\* (every command or process call it made was answered with success) and
\* then fails on the write of the ledger row, the external action stays
\* applied, and the call appends to the audit trail one entry that differs
\* from the entry of an ordinary failed attempt of the same operation on the
\* same target.
C25_WriteFailureSurfaced ==
    [][ ( /\ steps' = steps + 1
          /\ last'.op \in {"block_ip", "suspend_process"}
          /\ last'.calls # <<>>
          /\ \A i \in DOMAIN last'.calls : last'.calls[i].rc = "ok"
          /\ ~last'.ok ) =>
            LET target == IF last'.op = "block_ip" THEN IpTarget(last'.ip)
                          ELSE PidTarget(last'.pid)
                ordinary == log_response(Manager, last'.op, target, DefaultReason,
                                         FALSE, Calm).response_log
            IN  /\ last'.op = "block_ip" =>
                      fw_rules'[<<"in", last'.ip>>] = fw_rules[<<"in", last'.ip>>] + 1
                /\ last'.op = "suspend_process" => procs'[last'.pid] = "stopped"
                /\ Len(response_log') = Len(response_log) + 1
                /\ response_log'[Len(response_log')] # ordinary[Len(ordinary)]
      ]_vars

\* C27: every address and every pid with a row in the tables of the ledger
\* has an entry of a successful block_ip or suspend_process on it in the
\* table response_log.
C27_AuditCoversLedger ==
    /\ \A ip \in StoredIps :
          \E i \in DOMAIN response_log :
              /\ response_log[i].action = "block_ip"
              /\ response_log[i].success
              /\ response_log[i].target.ip = ip
    /\ \A pid \in StoredPids :
          \E i \in DOMAIN response_log :
              /\ response_log[i].action = "suspend_process"
              /\ response_log[i].success
              /\ response_log[i].target.pid = pid

(***************************************************************************)
(* The scorer and the whitelist checks as functions (SpecFn)               *)
(***************************************************************************)
\* the foreign addresses of ScoredConnections that are present and neither
\* loopback (127/8) nor private-range (10/8, 172.16/12, 192.168/16): a public
\* one, 203.0.113.5 of the documentation range, and a malformed text
ExternalAddresses == { PublicIp1, TestNetIp, <<1, 2, 3>> }

\* the program names of ScoredConnections that contain temp, tmp or unknown
\* when lowercased
SuspiciousPrograms ==
    { <<"t","m","p","x">>, <<"M","y","T","E","M","P">>, <<"u","n","k","n","o","w","n">> }

\* the score the rules give a connection
RuleScore(connection) ==
    Min(100,
        (IF connection.foreign_port \in suspicious_ports THEN 30 ELSE 0)
      + (IF connection.local_port \in suspicious_ports THEN 25 ELSE 0)
      + (IF connection.foreign_ip \in ExternalAddresses THEN 20 ELSE 0)
      + (IF connection.program \in SuspiciousPrograms THEN 15 ELSE 0))

\* C28: for every connection the score is min(100, 30 for a suspicious
\* foreign port + 25 for a suspicious local port + 20 for a foreign address
\* that is present and neither private nor loopback + 15 for a program name
\* containing temp, tmp or unknown), it lies in 0..100, an alert is raised
\* exactly when it exceeds 50, and the alert's severity is high exactly when
\* it exceeds 80.
C28_ScoreFollowsTheRules ==
    last.op = "calculate_basic_risk_score" =>
        /\ last.score = RuleScore(last.conn)
        /\ last.score \in 0..100
        /\ (last.alerts # <<>>) = (last.score > 50)
        /\ \A i \in DOMAIN last.alerts :
               (last.alerts[i].severity = "high") = (last.score > 80)

\* the addresses of CheckedAddresses that are loopback (127.0.0.1),
\* private-range (192.168.1.5, 10.1.2.3, 172.16.5.5), inside the configured
\* range 8.8.8.0/24, or the configured exact entry 9.9.9.9
ListedAddresses ==
    { Loopback, PrivateIp, <<10, 1, 2, 3>>, <<172, 16, 5, 5>>, InRangeIp, ExactIp }

\* the malformed address texts of CheckedAddresses; "300.1" is an entry of
\* the configured whitelist
MalformedAddresses == { <<300, 1>>, <<1, 2, 3>> }

\* C29: is_whitelisted_ip answers true exactly when the address is loopback,
\* private-range, inside a configured whitelist range or equal to a
\* configured exact entry; for a malformed address text it answers false,
\* also when the text equals a configured exact entry.
C29_WhitelistedAddressExactly ==
    last.op = "is_whitelisted_ip" =>
        /\ last.ok = (last.ip \in ListedAddresses)
        /\ last.ip \in MalformedAddresses => ~last.ok

\* the names of CheckedNames that contain a critical pattern when lowercased
\* (systemd, SSHD, Nginx-w), or contain the user's whitelist entry "backup"
ListedNames ==
    { <<"s","y","s","t","e","m","d">>, <<"S","S","H","D">>,
      <<"N","g","i","n","x","-","w">>,
      <<"b","a","c","k","u","p">>, <<"m","y","b","a","c","k","u","p">> }

\* C30: is_whitelisted_process answers true whenever the name contains a
\* critical pattern (ignoring case), or the name contains an entry of the
\* user's whitelist, or a pid is given and is at or below the low-PID floor;
\* it answers false only when none of the three holds.
C30_WhitelistedProcessWhenever ==
    last.op = "is_whitelisted_process" =>
        last.ok = \/ last.conn.program \in ListedNames
                  \/ last.pid # NoPid /\ last.pid <= LowPidFloor

(***************************************************************************)
(* The monitoring loop (SpecLoop)                                          *)
(***************************************************************************)
\* C26: a failure while scoring or acting on one connection, also one raised
\* on the confirmation path, does not stop the monitoring loop: when the
\* loop goes to sleep no connection of the cycle that raised an alert is left
\* unhandled, and the next cycle can start.
C26_LoopContinues ==
    cycle.pc = "sleep" =>
        /\ \A i \in DOMAIN cycle.connections :
               i > Len(cycle.handled) => cycle.connections[i].alerts = <<>>
        /\ steps < MaxSteps => ENABLED NextCycle

(***************************************************************************)
(* Two callers at once (SpecRace)                                          *)
(***************************************************************************)
\* the successful entries of one action on one address in response_log
Succeeded(log, action, ip) ==
    { i \in DOMAIN log :
        /\ log[i].action = action
        /\ log[i].target.ip = ip
        /\ log[i].success }

\* C21: when the sweep and a manual unblock of the same expired address run
\* at once, in every interleaving one of them removes the record and
\* succeeds and the other observes NotBlocked, not an execution error, and
\* the ledger ends without a record of the address: an unblock attempt that
\* fails reports NotBlocked, an address is unblocked at most once for each
\* block, and when an unblock attempt succeeds the table holds no row of the
\* address.
C21_SweepAndUnblockAtOnce ==
    [][ \A caller \in Callers, other \in Callers :
          LET f == threads'[caller]
              g == threads'[other]
          IN
          ({f.op, g.op} = {"unblock_ip", "auto_unblock_expired"} /\ f.pc = "done"
             /\ f.ip # NoIp /\ g.ip = f.ip) =>
              /\ ~f.ok => f.msg = "NotBlocked"
              /\ Cardinality(Succeeded(response_log', "unblock_ip", f.ip)) <=
                    Cardinality(Succeeded(response_log', "block_ip", f.ip))
              /\ (f.ok /\ threads[caller].pc = "forget") =>
                    \A i \in DOMAIN db_blocked_ips' : db_blocked_ips'[i].ip # f.ip ]_vars

\* C22: ledger mutations are serialized: when two block_ip calls for the
\* same address that is not whitelisted run at once, in every interleaving
\* one install is issued, one call succeeds, the other returns
\* AlreadyBlocked, and the automatic counter is incremented at most once:
\* the firewall never holds a rule of an address twice, an address is
\* blocked at most once more than it was unblocked, a block that fails
\* reports AlreadyBlocked, and the counter is at most one above the number
\* of unblocks.
C22_BlocksSerialized ==
    \A ip \in Raced \ {PrivateIp} :
       /\ \A dir \in Dirs : fw_rules[<<dir, ip>>] <= 1
       /\ Cardinality(Succeeded(response_log, "block_ip", ip)) <=
             Cardinality(Succeeded(response_log, "unblock_ip", ip)) + 1
       /\ auto_block_count <= Cardinality(Succeeded(response_log, "unblock_ip", ip)) + 1
       /\ \A caller \in Callers :
             LET f == threads[caller] IN
             (f.op = "block_ip" /\ f.ip = ip /\ f.pc = "done" /\ ~f.ok /\ f.msg # "") =>
                 f.msg = "AlreadyBlocked"

(***************************************************************************)
(* C31..C39: the budget counter, the sweep, the thresholds, the records of *)
(* terminated processes and of a second engine process.                    *)
(***************************************************************************)
\* the step is an automatic block that succeeded
AutoBlocked ==
    Monitors /\ last'.path = "auto" /\ last'.invoked = "block_ip" /\ last'.ok

\* C31, as stated: the automatic action counter increases by exactly one on
\* each successful automatic block and is unchanged by every other step: a
\* failed automatic block, an operation chosen at the prompt, the expiry
\* sweep.
C31_CounterMovesOnlyBySuccess ==
    [][ /\ AutoBlocked => auto_block_count' = auto_block_count + 1
        /\ ~AutoBlocked => auto_block_count' = auto_block_count ]_vars

\* C31, amended: counted from the value the budget check leaves (zero when the
\* check is made more than an hour after the last reset, the counter as it
\* was otherwise), the counter increases by exactly one on each successful
\* automatic block and is unchanged by a failed one; an operation chosen at
\* the prompt and the expiry sweep leave the counter and the time of its
\* reset as they were.
C31_CounterCountsSuccesses ==
    [][ LET reset == last_auto_block_reset' # last_auto_block_reset
            base == IF reset THEN 0 ELSE auto_block_count
        IN  /\ AutoBlocked => auto_block_count' = base + 1
            /\ ~AutoBlocked => auto_block_count' = base
            /\ reset => /\ Monitors
                        /\ config.auto_response
                        /\ now - last_auto_block_reset > TicksPerHour
            /\ (~Monitors \/ last'.path = "prompt") =>
                  /\ ~reset
                  /\ auto_block_count' = auto_block_count ]_vars

\* C31 witness: after one counted automatic block, a second automatic block
\* failed and the counter stayed at one
C31_Witness ==
    /\ last.op = "monitor"
    /\ last.path = "auto"
    /\ last.invoked = "block_ip"
    /\ ~last.ok
    /\ last.msg \in {"AlreadyBlocked", "ExecutionFailed"}
    /\ auto_block_count = 1
    /\ Cardinality(AutoBlocks) = 1

\* the automatic blocks on record that were made in the hour starting at s,
\* on the half-hour clock
AutoBlockedWithin(s) ==
    { i \in DOMAIN db_blocked_ips :
        /\ db_blocked_ips[i].reason.text = "Auto-block: Risk score"
        /\ db_blocked_ips[i].timestamp \in s..(s + FineTicksPerHour - 1) }

\* C32: the budget is rolling per hour: in every interval of one hour,
\* wherever it starts, the successful automatic blocks number at most
\* max_auto_blocks_per_hour, also when the interval straddles a reset of the
\* counter; and the counter is reset to zero only by an evaluation made more
\* than one hour after the last reset.
C32_RollingHourBudget ==
    /\ [](\A s \in 0..MaxFineTime :
             Cardinality(AutoBlockedWithin(s)) <= config.max_auto_blocks_per_hour)
    /\ [][ last_auto_block_reset' # last_auto_block_reset =>
              /\ last'.op = "monitor"
              /\ now - last_auto_block_reset > FineTicksPerHour
              /\ last_auto_block_reset' = now
              /\ auto_block_count' \in {0, 1} ]_vars

\* the addresses a sweep's step leaves held: still in the set or still on
\* record
Kept(ips) ==
    { ip \in ips : ip \in blocked_ips' \/ RowsOf(db_blocked_ips', "ip", ip) # {} }

\* C33: in one pass of the sweep over several expired addresses, a failure
\* while unblocking one address does not prevent the unblock of the others:
\* the pass leaves at most as many expired addresses held as unblocks failed
\* during it.
C33_SweepGoesOn ==
    [][ Calls("auto_unblock_expired") =>
            Cardinality(Kept(Expired)) <= faults' - faults ]_vars

\* C33 witness: two addresses had expired, the unblock of the first could not
\* run its command, and the pass unblocked the second
C33_Witness ==
    /\ last.op = "auto_unblock_expired"
    /\ faults = 1
    /\ Len(response_log) = 3
    /\ response_log[3].action = "unblock_ip"
    /\ response_log[3].success
    /\ response_log[3].target = response_log[2].target
    /\ response_log[1].target.ip \in blocked_ips
    /\ Len(db_blocked_ips) = 1
    /\ db_blocked_ips[1].ip = response_log[1].target.ip
    /\ db_blocked_ips[1].auto_unblock_time <= now

\* the records of the table whose expiry is at or before now
DueRows ==
    { i \in DOMAIN db_blocked_ips : db_blocked_ips[i].auto_unblock_time <= now }

\* C34: a sweep that meets no fault removes exactly the records whose expiry
\* is at or before now: the records whose expiry is later and the records of
\* suspended processes are left as they were, and a sweep that finds no such
\* record (a second sweep at the same instant) changes nothing.
C34_SweepRemovesExactlyExpired ==
    [][ (Calls("auto_unblock_expired") /\ faults' = faults) =>
            /\ db_blocked_ips' =
                  SelectSeq(db_blocked_ips, LAMBDA row : row.auto_unblock_time > now)
            /\ blocked_ips' = blocked_ips \ { db_blocked_ips[i].ip : i \in DueRows }
            /\ UNCHANGED << suspended_processes, db_suspended_processes >>
            /\ DueRows = {} =>
                  /\ last'.calls = <<>>
                  /\ UNCHANGED << blocked_ips, db_blocked_ips, fw_rules, rule_files,
                                  audit_log, response_log >> ]_vars

\* the budget check of the step passes: the counter, or zero when the last
\* reset is more than an hour ago, is below max_auto_blocks_per_hour
BudgetRemains ==
    (IF SameHour THEN auto_block_count ELSE 0) < config.max_auto_blocks_per_hour

\* C35: in automatic mode with budget remaining, every connection scored at or
\* above auto_block_threshold that has a non-whitelisted foreign address and
\* no pid to terminate leads to a call of block_ip, whatever the threshold,
\* thresholds of 50 or less included.
C35_ThresholdAlwaysBlocks ==
    [][ ( /\ Monitors
          /\ config.enabled
          /\ config.auto_response
          /\ BudgetRemains
          /\ last'.score >= config.auto_block_threshold
          /\ last'.conn.foreign_ip \in PublicAddresses
          /\ last'.conn.pid = NoPid ) =>
            /\ last'.path = "auto"
            /\ last'.invoked = "block_ip"
            /\ last'.ip = last'.conn.foreign_ip ]_vars

\* C37: after terminate_process succeeds on a process, the ledger holds no
\* record of a suspension of that process, in the set, in get_status or in
\* the table.
C37_TerminatedNotOnRecord ==
    [][ (Calls("terminate_process") /\ last'.ok) =>
            /\ last'.pid \notin suspended_processes'
            /\ last'.pid \notin get_status(Manager').suspended_processes
            /\ RowsOf(db_suspended_processes', "pid", last'.pid) = {} ]_vars

\* the default thresholds: 80 to block, 90 to terminate
DefaultThresholds ==
    /\ config.auto_block_threshold = DefaultConfig.auto_block_threshold
    /\ config.auto_terminate_threshold = DefaultConfig.auto_terminate_threshold

\* C39: under the default thresholds no score exceeds 90, every score that
\* reaches the block threshold reaches the terminate threshold, and an
\* automatic block is invoked only for a connection without a pid or with a
\* whitelisted process.
C39_BlockOnlyWithoutTermination ==
    [][ (Monitors /\ DefaultThresholds) =>
            /\ last'.score = risk_scores[last'.conn]
            /\ last'.score <= 90
            /\ last'.score >= config.auto_block_threshold =>
                  last'.score >= config.auto_terminate_threshold
            /\ (last'.path = "auto" /\ last'.invoked = "block_ip") =>
                  \/ last'.conn.pid = NoPid
                  \/ whitelisted_process[last'.conn.program, last'.conn.pid] ]_vars

\* C39 witness: under the default thresholds a connection scoring 90 whose
\* process is whitelisted was blocked automatically
C39_Witness ==
    /\ DefaultThresholds
    /\ last.op = "monitor"
    /\ last.score = 90
    /\ last.conn.pid # NoPid
    /\ whitelisted_process[last.conn.program, last.conn.pid]
    /\ last.path = "auto"
    /\ last.invoked = "block_ip"
    /\ last.ok

\* a call of a second engine process (the command line's --unblock-ip)
\* returns successfully in this step
PeerUnblocked(caller) ==
    /\ threads[caller].main
    /\ threads[caller].op = "unblock_ip"
    /\ threads[caller].pc # "done"
    /\ threads'[caller].pc = "done"
    /\ threads'[caller].ok

\* a block_ip of the monitoring process is refused as already blocked in
\* this step
RefusedAsBlocked(caller) ==
    /\ ~threads[caller].main
    /\ threads[caller].op = "block_ip"
    /\ threads[caller].pc # "done"
    /\ threads'[caller].pc = "done"
    /\ threads'[caller].msg = "AlreadyBlocked"

\* C38: when a second engine process removes a record from the table, the
\* monitoring process's set follows: it no longer holds the address, and a
\* later block_ip of the monitoring process is refused as already blocked
\* only for an address that has a row in the table.
C38_ViewFollowsStore ==
    [][ \A caller \in Callers :
          /\ PeerUnblocked(caller) => threads'[caller].ip \notin blocked_ips'
          /\ RefusedAsBlocked(caller) => threads'[caller].ip \in StoredIps ]_vars

\* the table holds a row of the address whose expiry has passed
Overdue(ip) ==
    \E i \in DOMAIN db_blocked_ips :
        /\ db_blocked_ips[i].ip = ip
        /\ db_blocked_ips[i].auto_unblock_time <= now

\* C36: every row of a blocked address carries an expiry later than its
\* creation, and while the monitoring loop keeps cycling no address stays
\* in the table with its expiry passed: the row is eventually removed,
\* whichever process inserted it.
C36_ExpiredEventuallyReleased ==
    /\ [](\A i \in DOMAIN db_blocked_ips :
             db_blocked_ips[i].auto_unblock_time > db_blocked_ips[i].timestamp)
    /\ \A ip \in Watched : Overdue(ip) ~> ~Overdue(ip)
====
